---- MODULE Spec2Model ----
(***************************************************************************)
(* Content pipeline of the blog server (src/src/main.rs): front-matter     *)
(* parser, slug generator, Markdown transducer, reading time and the       *)
(* collection builder; and the admin side that writes the documents:       *)
(* login with lock-out, sessions, and the handlers that save, delete,      *)
(* import and synchronise content files.                                   *)
(*                                                                         *)
(* Text is a sequence of characters; a character is a one-element token    *)
(* written as a TLA+ string ("a", " ", "\n", ...).  Fixed pieces of markup *)
(* that the code emits with one push_str are single tokens of the output.  *)
(***************************************************************************)
EXTENDS Integers, Sequences, FiniteSets, TLC

VARIABLES
    \* ---- slug generator runs (closure slugify, get_posts slug) ----
    sl_pc,          \* "idle" | "start" | "once" | "twice"
    sl_fn,          \* which derivation is applied: "heading" | "title" | "save"
    sl_text,        \* the text last handed to the derivation
    sl_out,         \* the string it returned
    \* ---- parse_metadata and its caller's split (get_posts 503-504) ----
    pm_pc,          \* "idle" | "start" | "lines" | "returned" | "rejected" | "body"
    pm_in,          \* what the document was written from
    content,        \* the document text
    parts,          \* content.splitn(3, "---")
    pm_i,           \* number of lines of the metadata block already read
    meta,           \* the Metadata being filled
    pm_ret,         \* parse_metadata's return value: <<>> (None) or <<meta>>
    content_str,    \* the body get_posts hands to the transducer
    \* ---- markdown_to_html ----
    md_pc,          \* "idle" | "run" | "done"
    events,         \* the events collected from the parser
    i,              \* the cursor: number of events handled so far
    html_output,
    in_code_block,
    code_lang,
    code_content,
    in_table_head,
    heading_level,  \* Option<u32>
    heading_text,
    heading_inner,
    hl_calls,       \* the calls of highlight_code made so far: (code, lang)
    hl_results,     \* whether each of these calls rendered (Ok) or fell back (Err)
    rendered,       \* get_posts: the events and the HTML of the documents rendered
    \* ---- calculate_reading_time and the Post fields it fills ----
    rt_pc,          \* "idle" | "start" | "computed" | "stored"
    rt_in,          \* what the body was written from
    reading_time,
    word_count,
    rt_post,        \* the reading_time and word_count fields of the Post
    rt_padded,      \* what calculate_reading_time returns for the body and one space
    \* ---- get_posts ----
    gp_pc,          \* "idle" | "loop" | "sort" | "done"
    entries,        \* the directory entries, in the order read_dir yields them
    tz,             \* the local time zone
    now,            \* what Local::now() answers
    gp_k,           \* number of entries visited
    posts,
    \* ---- highlight_code ----
    hl_pc,          \* "idle" | "start" | "found" | "done"
    hl_code,
    hl_lang,
    hl_syntax,      \* the name of the syntax the lookups settle on
    hl_ok,          \* whether highlighted_html_for_string returned Ok
    hl_out,
    \* ---- AdminState, the login handler and is_authenticated ----
    ad_clock,       \* Instant::now(), in seconds since the server started
    ad_ticks,       \* how often the clock has been advanced
    sessions,       \* AdminState.sessions: token -> created_at
    login_attempts, \* AdminState.login_attempts: ip -> LoginAttemptData
    lg_pc,          \* per login task: "idle" | "verify" | "session"
    lg_req,         \* per login task: the client's ip, whether its password is right
    lg_started,     \* number of login requests received
    issued,         \* history: token -> the time a login created it
    revoked,        \* history: the issued tokens a logout has carried
    auth_result,    \* the last answer of is_authenticated; turn flips with every answer
    \* ---- the content directory and the handlers that write it ----
    files,          \* content/: file name -> document text
    github_links,   \* AdminState.github_links: slug -> GitHubLink
    ad_last,        \* the request handled last
    ad_n            \* number of requests handled

slvars == <<sl_pc, sl_fn, sl_text, sl_out>>

pmvars == <<pm_pc, pm_in, content, parts, pm_i, meta, pm_ret, content_str>>

mdvars == <<md_pc, events, i, html_output, in_code_block, code_lang, code_content,
            in_table_head, heading_level, heading_text, heading_inner, hl_calls,
            hl_results, rendered>>

rtvars == <<rt_pc, rt_in, reading_time, word_count, rt_post, rt_padded>>

gpvars == <<gp_pc, entries, tz, now, gp_k, posts>>

hlvars == <<hl_pc, hl_code, hl_lang, hl_syntax, hl_ok, hl_out>>

authvars == <<ad_clock, ad_ticks, sessions, login_attempts, lg_pc, lg_req, lg_started,
              issued, revoked, auth_result>>

cmsvars == <<files, github_links, ad_last, ad_n>>

advars == <<authvars, cmsvars>>

vars == <<slvars, pmvars, mdvars, rtvars, gpvars, hlvars, advars>>

\* what the actions of one component leave alone
notslug == <<pmvars, mdvars, rtvars, gpvars, hlvars, advars>>
notmeta == <<slvars, mdvars, rtvars, gpvars, hlvars, advars>>
notmd == <<slvars, pmvars, rtvars, gpvars, hlvars, advars>>
notrt == <<slvars, pmvars, mdvars, gpvars, hlvars, advars>>
notgp == <<slvars, pmvars, mdvars, rtvars, hlvars, advars>>
nothl == <<slvars, pmvars, mdvars, rtvars, gpvars, advars>>
notad == <<slvars, pmvars, mdvars, rtvars, gpvars, hlvars>>

----------------------------------------------------------------------------
(* Sequences *)

RECURSIVE Concat(_)
\* the concatenation of a sequence of sequences
Concat(ss) ==
    IF ss = <<>> THEN <<>> ELSE Head(ss) \o Concat(Tail(ss))

\* all sequences over S of length at most n
SeqsUpTo(S, n) == UNION {[1..m -> S] : m \in 0..n}

----------------------------------------------------------------------------
(* Characters: char::is_alphanumeric, char::is_whitespace, str::to_lowercase *)

UpperChars ==
    {"A","B","C","D","E","F","G","H","I","J","K","L","M",
     "N","O","P","Q","R","S","T","U","V","W","X","Y","Z"}

LowerChars ==
    {"a","b","c","d","e","f","g","h","i","j","k","l","m",
     "n","o","p","q","r","s","t","u","v","w","x","y","z"}

DigitChars == {"0","1","2","3","4","5","6","7","8","9"}

\* U+0130 LATIN CAPITAL LETTER I WITH DOT ABOVE: alphanumeric, and its
\* lower-case form is the two characters "i", U+0307 COMBINING DOT ABOVE
IDot == "U+0130"
DotAbove == "U+0307"

WhitespaceChars == {" ", "\t", "\n", "\r"}

LowerOf ==
    [c \in UpperChars |->
        CASE c = "A" -> "a" [] c = "B" -> "b" [] c = "C" -> "c" [] c = "D" -> "d"
          [] c = "E" -> "e" [] c = "F" -> "f" [] c = "G" -> "g" [] c = "H" -> "h"
          [] c = "I" -> "i" [] c = "J" -> "j" [] c = "K" -> "k" [] c = "L" -> "l"
          [] c = "M" -> "m" [] c = "N" -> "n" [] c = "O" -> "o" [] c = "P" -> "p"
          [] c = "Q" -> "q" [] c = "R" -> "r" [] c = "S" -> "s" [] c = "T" -> "t"
          [] c = "U" -> "u" [] c = "V" -> "v" [] c = "W" -> "w" [] c = "X" -> "x"
          [] c = "Y" -> "y" [] c = "Z" -> "z"]

is_alphanumeric(c) ==
    c \in UpperChars \cup LowerChars \cup DigitChars \cup {IDot}

is_whitespace(c) == c \in WhitespaceChars

\* the lower-case form of one character: a sequence, since it may be longer
lower_char(c) ==
    IF c \in UpperChars THEN <<LowerOf[c]>>
    ELSE IF c = IDot THEN <<"i", DotAbove>>
    ELSE <<c>>

to_lowercase(text) ==
    Concat([k \in 1..Len(text) |-> lower_char(text[k])])

RECURSIVE SplitAcc(_, _, _, _)
\* words of text[k..]: cur is the word being read, acc the words finished
SplitAcc(text, k, cur, acc) ==
    IF k > Len(text)
    THEN IF cur = <<>> THEN acc ELSE Append(acc, cur)
    ELSE IF is_whitespace(text[k])
         THEN SplitAcc(text, k + 1, <<>>, IF cur = <<>> THEN acc ELSE Append(acc, cur))
         ELSE SplitAcc(text, k + 1, Append(cur, text[k]), acc)

\* str::split_whitespace: the maximal runs of non-whitespace characters
split_whitespace(text) == SplitAcc(text, 1, <<>>, <<>>)

RECURSIVE join(_, _)
\* [T]::join(sep)
join(words, sep) ==
    IF words = <<>> THEN <<>>
    ELSE IF Len(words) = 1 THEN words[1]
    ELSE words[1] \o sep \o join(Tail(words), sep)

RECURSIVE SplitFrom(_, _, _)
\* the parts of text[k..]: up to the next c, and those after it
SplitFrom(text, c, k) ==
    LET seps == {m \in k..Len(text) : text[m] = c}
        next == CHOOSE m \in seps : \A j \in seps : m <= j
    IN  IF seps = {} THEN <<SubSeq(text, k, Len(text))>>
        ELSE <<SubSeq(text, k, next - 1)>> \o SplitFrom(text, c, next + 1)

\* str::split(c): every part, the empty ones too
split(text, c) == SplitFrom(text, c, 1)

----------------------------------------------------------------------------
(* Slug generator *)

\* the character map of the heading-anchor closure (main.rs:275)
SlugifyMapChar(c) == IF is_alphanumeric(c) THEN c ELSE " "

\* the variant that lower-cases last, after the separators are placed
slugify_lower_last(text) ==
    to_lowercase(
        join(split_whitespace([k \in 1..Len(text) |-> SlugifyMapChar(text[k])]), <<"-">>))

\* markdown_to_html's closure slugify
slugify(text) ==
    LET lowered == to_lowercase(text)
        mapped  == [k \in 1..Len(lowered) |-> SlugifyMapChar(lowered[k])]
    IN  join(split_whitespace(mapped), <<"-">>)

\* the character map of the post slug (main.rs:523)
TitleMapChar(c) == IF is_alphanumeric(c) \/ c = " " THEN c ELSE " "

\* the post-slug variant that keeps the title's case
title_slug_nolower(title) ==
    join(split_whitespace([k \in 1..Len(title) |-> TitleMapChar(title[k])]), <<"-">>)

\* get_posts: the slug derived from metadata.title
title_slug(title) ==
    LET lowered == to_lowercase(title)
        mapped  == [k \in 1..Len(lowered) |-> TitleMapChar(lowered[k])]
    IN  join(split_whitespace(mapped), <<"-">>)

\* the character map of the file-name slug (main.rs:1411)
SaveMapChar(c) == IF is_alphanumeric(c) THEN c ELSE "-"

NonEmpty(part) == part # <<>>

\* the file-name slug that keeps the empty parts between two separators
save_slug_keep_empty(title) ==
    LET lowered == to_lowercase(title)
        mapped  == [k \in 1..Len(lowered) |-> SaveMapChar(lowered[k])]
    IN  join(split(mapped, "-"), <<"-">>)

\* admin_save_post: the slug derived from form.title when the form has none
save_slug(title) ==
    LET lowered == to_lowercase(title)
        mapped  == [k \in 1..Len(lowered) |-> SaveMapChar(lowered[k])]
    IN  join(SelectSeq(split(mapped, "-"), NonEmpty), <<"-">>)

----------------------------------------------------------------------------
(* Runs of the slug generator on bounded texts *)

MaxSlugLen == 4

SlugChars == {"A", "b", "1", " ", "\t", "-", "!", IDot}

SlugFns == {"heading", "title", "save"}

ApplySlug(fn, text) ==
    CASE fn = "heading" -> slugify(text)
      [] fn = "title" -> title_slug(text)
      [] fn = "save" -> save_slug(text)

SlugIdle ==
    /\ sl_pc = "idle" /\ sl_fn = "heading" /\ sl_text = <<>> /\ sl_out = <<>>

SlugInit ==
    /\ sl_pc = "start"
    /\ sl_fn \in SlugFns
    /\ sl_text \in SeqsUpTo(SlugChars, MaxSlugLen)
    /\ sl_out = <<>>

\* the derivation is applied to the text
SlugApply ==
    /\ sl_pc = "start"
    /\ sl_out' = ApplySlug(sl_fn, sl_text)
    /\ sl_pc' = "once"
    /\ UNCHANGED <<sl_fn, sl_text, notslug>>

\* the derivation is applied to its own result
SlugReapply ==
    /\ sl_pc = "once"
    /\ sl_text' = sl_out
    /\ sl_out' = ApplySlug(sl_fn, sl_out)
    /\ sl_pc' = "twice"
    /\ UNCHANGED <<sl_fn, notslug>>

SlugNext == SlugApply \/ SlugReapply

----------------------------------------------------------------------------
(* Front-matter parser: parse_metadata *)

Delim == <<"-", "-", "-">>

\* whether pat occurs in text at position k
OccursAt(text, pat, k) ==
    /\ k >= 1
    /\ k + Len(pat) - 1 <= Len(text)
    /\ SubSeq(text, k, k + Len(pat) - 1) = pat

\* the first position >= k where pat occurs in text, 0 when there is none
FindFrom(text, pat, k) ==
    LET hits == {m \in k..(Len(text) - Len(pat) + 1) : OccursAt(text, pat, m)}
    IN  IF hits = {} THEN 0
        ELSE CHOOSE m \in hits : \A j \in hits : m <= j

\* the variant that splits at every occurrence wanted but the last one found
\* from the right (rsplitn for splitn)
splitn3_right(text, pat) ==
    LET occ == {k \in 1..Len(text) : OccursAt(text, pat, k)}
        last == IF occ = {} THEN 0 ELSE CHOOSE k \in occ : \A m \in occ : m <= k
        occ2 == {k \in occ : k + Len(pat) <= last}
        prev == IF occ2 = {} THEN 0 ELSE CHOOSE k \in occ2 : \A m \in occ2 : m <= k
    IN  IF last = 0 THEN <<text>>
        ELSE IF prev = 0
             THEN <<SubSeq(text, 1, last - 1), SubSeq(text, last + Len(pat), Len(text))>>
             ELSE <<SubSeq(text, 1, prev - 1),
                    SubSeq(text, prev + Len(pat), last - 1),
                    SubSeq(text, last + Len(pat), Len(text))>>

\* str::splitn(3, pat): at most three parts, the last one the remainder
splitn3(text, pat) ==
    LET p1 == FindFrom(text, pat, 1)
        p2 == IF p1 = 0 THEN 0 ELSE FindFrom(text, pat, p1 + Len(pat))
    IN  IF p1 = 0 THEN <<text>>
        ELSE IF p2 = 0
             THEN <<SubSeq(text, 1, p1 - 1), SubSeq(text, p1 + Len(pat), Len(text))>>
             ELSE <<SubSeq(text, 1, p1 - 1),
                    SubSeq(text, p1 + Len(pat), p2 - 1),
                    SubSeq(text, p2 + Len(pat), Len(text))>>

\* str::splitn(2, ':'): one part when the line has no colon, else two
splitn2(line, c) ==
    LET p == FindFrom(line, <<c>>, 1)
    IN  IF p = 0 THEN <<line>>
        ELSE <<SubSeq(line, 1, p - 1), SubSeq(line, p + 1, Len(line))>>

\* str::trim_matches(pattern): every leading and trailing character of S goes
trim_matches(text, S) ==
    LET keep == {k \in 1..Len(text) : text[k] \notin S}
    IN  IF keep = {} THEN <<>>
        ELSE SubSeq(text,
                    CHOOSE k \in keep : \A m \in keep : k <= m,
                    CHOOSE k \in keep : \A m \in keep : m <= k)

trim(text) == trim_matches(text, WhitespaceChars)

\* str::lines: split after every "\n"; a line loses its "\n" and then a "\r"
\* before it; a last piece without "\n" is a line as it stands
lines(text) ==
    LET raw == split(text, "\n")
        n == Len(raw)
        \* split yields a last, possibly empty, piece after the final "\n"
        kept == IF raw[n] = <<>> THEN SubSeq(raw, 1, n - 1) ELSE raw
    IN  [k \in 1..Len(kept) |->
            IF k < n /\ kept[k] # <<>> /\ kept[k][Len(kept[k])] = "\r"
            THEN SubSeq(kept[k], 1, Len(kept[k]) - 1)
            ELSE kept[k]]

\* Option<T>: <<>> is None, <<v>> is Some(v)
NoneOpt == <<>>
Some(v) == <<v>>

\* Metadata::default()
MetadataDefault ==
    [title |-> <<>>, date |-> <<>>, tags |-> <<>>, summary |-> <<>>,
     author |-> NoneOpt, image |-> NoneOpt, image_alt |-> NoneOpt,
     keywords |-> NoneOpt, canonical |-> NoneOpt, github_repo |-> NoneOpt,
     website |-> NoneOpt]

\* the keys of the match in parse_metadata, as text
KeyChars ==
    [title       |-> <<"t","i","t","l","e">>,
     date        |-> <<"d","a","t","e">>,
     tags        |-> <<"t","a","g","s">>,
     summary     |-> <<"s","u","m","m","a","r","y">>,
     author      |-> <<"a","u","t","h","o","r">>,
     image       |-> <<"i","m","a","g","e">>,
     image_alt   |-> <<"i","m","a","g","e","_","a","l","t">>,
     keywords    |-> <<"k","e","y","w","o","r","d","s">>,
     canonical   |-> <<"c","a","n","o","n","i","c","a","l">>,
     github_repo |-> <<"g","i","t","h","u","b","_","r","e","p","o">>,
     website     |-> <<"w","e","b","s","i","t","e">>,
     homepage    |-> <<"h","o","m","e","p","a","g","e">>]

RecognizedKeys == DOMAIN KeyChars

\* the tags arm without the filter that drops the empty elements
parse_tags_keep_empty(value) ==
    LET cleaned == trim_matches(value, {"[", "]"})
        elems == split(cleaned, ",")
    IN  [k \in 1..Len(elems) |->
            trim_matches(trim_matches(trim(elems[k]), {"\""}), {"'"})]

\* the "tags" arm of the match (main.rs:227-235)
parse_tags(value) ==
    LET cleaned == trim_matches(value, {"[", "]"})
        elems == split(cleaned, ",")
        trimmed == [k \in 1..Len(elems) |->
                       trim_matches(trim_matches(trim(elems[k]), {"\""}), {"'"})]
    IN  SelectSeq(trimmed, LAMBDA s : s # <<>>)

\* the variant whose catch-all arm is missing: an unknown key lands in summary
apply_key_catchall(m, key, value) ==
    IF key = KeyChars.title THEN [m EXCEPT !.title = value]
    ELSE IF key = KeyChars.tags THEN [m EXCEPT !.tags = parse_tags(value)]
    ELSE [m EXCEPT !.summary = value]

\* the match on the key (main.rs:224-245)
apply_key(m, key, value) ==
    CASE key = KeyChars.title       -> [m EXCEPT !.title = value]
      [] key = KeyChars.date        -> [m EXCEPT !.date = value]
      [] key = KeyChars.tags        -> [m EXCEPT !.tags = parse_tags(value)]
      [] key = KeyChars.summary     -> [m EXCEPT !.summary = value]
      [] key = KeyChars.author      -> [m EXCEPT !.author = Some(value)]
      [] key = KeyChars.image       -> [m EXCEPT !.image = Some(value)]
      [] key = KeyChars.image_alt   -> [m EXCEPT !.image_alt = Some(value)]
      [] key = KeyChars.keywords    -> [m EXCEPT !.keywords = Some(value)]
      [] key = KeyChars.canonical   -> [m EXCEPT !.canonical = Some(value)]
      [] key = KeyChars.github_repo -> [m EXCEPT !.github_repo = Some(value)]
      [] key = KeyChars.website     -> [m EXCEPT !.website = Some(value)]
      [] key = KeyChars.homepage    -> [m EXCEPT !.website = Some(value)]
      [] OTHER                      -> m

\* one iteration of `for line in meta_str.lines()` (main.rs:219-247)
apply_line(m, line) ==
    LET kv == splitn2(line, ":")
    IN  IF Len(kv) = 2
        THEN apply_key(m, trim(kv[1]), trim_matches(trim(kv[2]), {"\""}))
        ELSE m

RECURSIVE fold_lines(_, _)
fold_lines(m, ls) ==
    IF ls = <<>> THEN m ELSE fold_lines(apply_line(m, Head(ls)), Tail(ls))

\* parse_metadata as a function: <<>> for None
parse_metadata(text) ==
    LET ps == splitn3(text, Delim)
    IN  IF Len(ps) < 3 THEN NoneOpt
        ELSE Some(fold_lines(MetadataDefault, lines(ps[2])))

\* get_posts: content.splitn(3, "---").nth(2).unwrap_or("")
body_of(text) ==
    LET ps == splitn3(text, Delim)
    IN  IF Len(ps) >= 3 THEN ps[3] ELSE <<>>

----------------------------------------------------------------------------
(* Documents the parser is run on *)

MaxDocLen == 8
MaxLines == 2
MaxTags == 2

\* keys no arm of the match names
OtherKeyChars ==
    [foo   |-> <<"f","o","o">>,
     Title |-> <<"T","i","t","l","e">>,
     empty |-> <<>>]

KeyText(name) ==
    IF name \in RecognizedKeys THEN KeyChars[name] ELSE OtherKeyChars[name]

\* a line of a metadata block, written from a key and a value
LineText(l) ==
    LET pad == IF l.pad THEN <<" ">> ELSE <<>>
        q == IF l.quoted THEN <<"\"">> ELSE <<>>
    IN  pad \o KeyText(l.key) \o pad
            \o (IF l.colon THEN <<":">> ELSE <<>>)
            \o (IF l.val = <<>> THEN <<>> ELSE <<" ">> \o q \o l.val \o q)

MetaLineSet ==
    {[key |-> k, pad |-> FALSE, colon |-> TRUE, quoted |-> FALSE, val |-> <<"v">>] :
        k \in RecognizedKeys}
    \cup
    {[key |-> "title", pad |-> TRUE, colon |-> TRUE, quoted |-> TRUE, val |-> <<"H","i">>],
     [key |-> "canonical", pad |-> FALSE, colon |-> TRUE, quoted |-> FALSE,
      val |-> <<"u",":","v">>],
     [key |-> "foo", pad |-> FALSE, colon |-> TRUE, quoted |-> FALSE, val |-> <<"x">>],
     [key |-> "Title", pad |-> FALSE, colon |-> TRUE, quoted |-> FALSE, val |-> <<"x">>],
     [key |-> "title", pad |-> FALSE, colon |-> FALSE, quoted |-> FALSE, val |-> <<"x">>],
     [key |-> "empty", pad |-> FALSE, colon |-> FALSE, quoted |-> FALSE, val |-> <<>>]}

\* an element of a tags value: a word, optionally quoted, optionally padded
ElemText(e) ==
    (IF e.pad \in {"lead", "both"} THEN <<" ">> ELSE <<>>)
        \o e.quote \o e.word \o e.quote
        \o (IF e.pad = "both" THEN <<" ">> ELSE <<>>)

TagElemSet ==
    [pad : {"none", "lead", "both"},
     quote : {<<>>, <<"\"">>, <<"'">>},
     word : {<<>>, <<"r">>, <<"a", " ", "b">>}]

\* the value of a tags key: the elements joined by commas, bare or in brackets
TagsValue(bracket, elems) ==
    LET inner == join([k \in 1..Len(elems) |-> ElemText(elems[k])], <<",">>)
    IN  IF bracket THEN <<"[">> \o inner \o <<"]">> ELSE inner

\* tags: [rust, web, "axum blog"]
TagsExample ==
    [kind |-> "tags", bracket |-> TRUE,
     elems |-> <<[pad |-> "none", quote |-> <<>>, word |-> <<"r","u","s","t">>],
                 [pad |-> "lead", quote |-> <<>>, word |-> <<"w","e","b">>],
                 [pad |-> "lead", quote |-> <<"\"">>,
                  word |-> <<"a","x","u","m"," ","b","l","o","g">>]>>]

Fence == Delim \o <<"\n">>

\* the text of a document written from its description
DocOf(in) ==
    CASE in.kind = "chars" -> in.doc
      [] in.kind = "lines" ->
            Fence
            \o Concat([k \in 1..Len(in.items) |-> LineText(in.items[k]) \o <<"\n">>])
            \o Fence \o in.body
      [] in.kind = "tags" ->
            Fence \o KeyChars.tags \o <<":", " ">> \o TagsValue(in.bracket, in.elems)
            \o <<"\n">> \o Fence \o <<"b">>

\* a document is written character by character, from lines of a metadata
\* block, or from the elements of a tags value
IsMetaInput(in) ==
    \/ \E d \in SeqsUpTo({"-", "a", "\n"}, MaxDocLen) :
            in = [kind |-> "chars", doc |-> d]
    \/ \E ls \in SeqsUpTo(MetaLineSet, MaxLines),
           b \in {<<"b">>, <<"b", "\n">> \o Delim \o <<"\n", "c">>} :
            in = [kind |-> "lines", items |-> ls, body |-> b]
    \/ \E br \in BOOLEAN, es \in SeqsUpTo(TagElemSet, MaxTags) :
            in = [kind |-> "tags", bracket |-> br, elems |-> es]
    \/ in = TagsExample

MetaIdle ==
    /\ pm_pc = "idle" /\ pm_in = [kind |-> "chars", doc |-> <<>>]
    /\ content = <<>> /\ parts = <<>> /\ pm_i = 0
    /\ meta = MetadataDefault /\ pm_ret = NoneOpt /\ content_str = <<>>

MetaInit ==
    /\ pm_pc = "start"
    /\ IsMetaInput(pm_in)
    /\ content = DocOf(pm_in)
    /\ parts = <<>> /\ pm_i = 0
    /\ meta = MetadataDefault /\ pm_ret = NoneOpt /\ content_str = <<>>

\* main.rs:212-217: the split; fewer than three parts returns None
PmSplit ==
    /\ pm_pc = "start"
    /\ parts' = splitn3(content, Delim)
    /\ IF Len(parts') < 3
       THEN pm_pc' = "rejected" /\ pm_ret' = NoneOpt
       ELSE pm_pc' = "lines" /\ pm_ret' = pm_ret
    /\ meta' = MetadataDefault
    /\ UNCHANGED <<pm_in, content, pm_i, content_str, notmeta>>

\* main.rs:219-247: the loop body for the next line of parts[1]
PmLine ==
    /\ pm_pc = "lines"
    /\ pm_i < Len(lines(parts[2]))
    /\ meta' = apply_line(meta, lines(parts[2])[pm_i + 1])
    /\ pm_i' = pm_i + 1
    /\ UNCHANGED <<pm_pc, pm_in, content, parts, pm_ret, content_str, notmeta>>

\* main.rs:248: Some(meta)
PmReturn ==
    /\ pm_pc = "lines"
    /\ pm_i = Len(lines(parts[2]))
    /\ pm_ret' = Some(meta)
    /\ pm_pc' = "returned"
    /\ UNCHANGED <<pm_in, content, parts, pm_i, meta, content_str, notmeta>>

\* main.rs:503-504: with Some(metadata), get_posts takes the body
GpBody ==
    /\ pm_pc = "returned"
    /\ content_str' = body_of(content)
    /\ pm_pc' = "body"
    /\ UNCHANGED <<pm_in, content, parts, pm_i, meta, pm_ret, notmeta>>

MetaNext == PmSplit \/ PmLine \/ PmReturn \/ GpBody

----------------------------------------------------------------------------
(* Markdown events (pulldown_cmark::Event) and their default rendering *)

Ev(kind) == [kind |-> kind]
Text(t) == [kind |-> "Text", text |-> t]
Code(t) == [kind |-> "Code", text |-> t]
HeadingStart(level) == [kind |-> "HeadingStart", level |-> level]
HeadingEnd(level) == [kind |-> "HeadingEnd", level |-> level]
\* CodeBlockKind::Fenced(lang) | CodeBlockKind::Indented
CodeBlockStart(fenced, lang) == [kind |-> "CodeBlockStart", fenced |-> fenced, lang |-> lang]
TaskListMarker(checked) == [kind |-> "TaskListMarker", checked |-> checked]
FootnoteDefStart(name) == [kind |-> "FootnoteDefStart", name |-> name]
FootnoteReference(name) == [kind |-> "FootnoteReference", name |-> name]

\* the decimal digit of a heading level
LevelStr(level) ==
    CASE level = 1 -> "1" [] level = 2 -> "2" [] level = 3 -> "3"
      [] level = 4 -> "4" [] level = 5 -> "5" [] level = 6 -> "6"

\* escaping of text in element content: & < > become entities
escape_char(c) ==
    CASE c = "&" -> "&amp;" [] c = "<" -> "&lt;" [] c = ">" -> "&gt;" [] OTHER -> c

escape_html(t) == [k \in 1..Len(t) |-> escape_char(t[k])]

\* pulldown_cmark::html::push_html on an iterator of the one event e: the
\* markup a fresh HTML writer produces for it
push_html(e) ==
    CASE e.kind = "Text" -> escape_html(e.text)
      [] e.kind = "Code" -> <<"<code>">> \o escape_html(e.text) \o <<"</code>">>
      [] e.kind = "SoftBreak" -> <<"\n">>
      [] e.kind = "HardBreak" -> <<"<br />", "\n">>
      [] e.kind = "ParagraphStart" -> <<"<p>">>
      [] e.kind = "ParagraphEnd" -> <<"</p>", "\n">>
      [] e.kind = "EmphasisStart" -> <<"<em>">>
      [] e.kind = "EmphasisEnd" -> <<"</em>">>
      [] e.kind = "ListStart" -> <<"<ul>", "\n">>
      [] e.kind = "ListEnd" -> <<"</ul>", "\n">>
      [] e.kind = "ItemStart" -> <<"<li>">>
      [] e.kind = "ItemEnd" -> <<"</li>", "\n">>
      [] e.kind = "HeadingStart" -> <<"<h", LevelStr(e.level), ">">>
      [] e.kind = "HeadingEnd" -> <<"</h", LevelStr(e.level), ">", "\n">>
      [] e.kind = "CodeBlockStart" ->
            IF e.fenced /\ e.lang # <<>>
            THEN <<"<pre><code class=\"language-">> \o escape_html(e.lang) \o <<"\">">>
            ELSE <<"<pre><code>">>
      [] e.kind = "CodeBlockEnd" -> <<"</code></pre>", "\n">>
      [] e.kind = "TableStart" -> <<"<table>">>
      [] e.kind = "TableEnd" -> <<"</tbody></table>", "\n">>
      [] e.kind = "TableHeadStart" -> <<"<thead><tr>">>
      [] e.kind = "TableHeadEnd" -> <<"</tr></thead><tbody>", "\n">>
      [] e.kind = "TableRowStart" -> <<"<tr>">>
      [] e.kind = "TableRowEnd" -> <<"</tr>", "\n">>
      [] e.kind = "TableCellStart" -> <<"<th>">>
      [] e.kind = "TableCellEnd" -> <<"</th>">>
      [] e.kind = "TaskListMarker" ->
            IF e.checked
            THEN <<"<input disabled=\"\" type=\"checkbox\" checked=\"\"/>", "\n">>
            ELSE <<"<input disabled=\"\" type=\"checkbox\"/>", "\n">>
      [] e.kind = "FootnoteDefStart" ->
            <<"<div class=\"footnote-definition\" id=\"">> \o escape_html(e.name)
            \o <<"\"><sup class=\"footnote-definition-label\">", "1", "</sup>">>
      [] e.kind = "FootnoteDefEnd" -> <<"</div>", "\n">>
      [] e.kind = "FootnoteReference" ->
            <<"<sup class=\"footnote-reference\"><a href=\"#">> \o escape_html(e.name)
            \o <<"\">", "1", "</a></sup>">>
      [] e.kind = "StrikethroughStart" -> <<"<del>">>
      [] e.kind = "StrikethroughEnd" -> <<"</del>">>
      [] e.kind = "BlockQuoteStart" -> <<"<blockquote>", "\n">>
      [] e.kind = "BlockQuoteEnd" -> <<"</blockquote>", "\n">>

----------------------------------------------------------------------------
(* Syntax highlighter adapter: highlight_code *)

\* the syntaxes of the default set the inputs reach: name and file extensions,
\* in the order of the set
SyntaxSet ==
    <<[name |-> <<"P","l","a","i","n"," ","T","e","x","t">>, exts |-> {<<"t","x","t">>}],
      [name |-> <<"R","u","s","t">>, exts |-> {<<"r","s">>}],
      [name |-> <<"P","y","t","h","o","n">>, exts |-> {<<"p","y">>}],
      [name |-> <<"L","a","T","e","X">>, exts |-> {<<"t","e","x">>, <<"l","t","x">>}],
      [name |-> <<"T","e","X">>, exts |-> {<<"s","t","y">>, <<"c","l","s">>}]>>

eq_ignore_ascii_case(a, b) ==
    /\ Len(a) = Len(b)
    /\ \A k \in 1..Len(a) :
           (IF a[k] \in UpperChars THEN LowerOf[a[k]] ELSE a[k])
               = (IF b[k] \in UpperChars THEN LowerOf[b[k]] ELSE b[k])

\* syntaxes.iter().rev().find(..): the last syntax of the set that matches
LastOf(S) == IF S = {} THEN NoneOpt ELSE Some(SyntaxSet[CHOOSE n \in S : \A o \in S : o <= n])

\* SyntaxSet::find_syntax_by_extension
find_syntax_by_extension(lang) ==
    LastOf({n \in 1..Len(SyntaxSet) : lang \in SyntaxSet[n].exts})

\* SyntaxSet::find_syntax_by_token: by extension, then by name whatever the case
find_syntax_by_token(lang) ==
    IF find_syntax_by_extension(lang) # NoneOpt THEN find_syntax_by_extension(lang)
    ELSE LastOf({n \in 1..Len(SyntaxSet) : eq_ignore_ascii_case(SyntaxSet[n].name, lang)})

\* SyntaxSet::find_syntax_plain_text
find_syntax_plain_text == SyntaxSet[1]

\* the lookup that has no plain-text syntax to fall back on: None is an error
find_syntax_strict(lang) ==
    IF find_syntax_by_token(lang) # NoneOpt THEN find_syntax_by_token(lang)[1].name
    ELSE IF find_syntax_by_extension(lang) # NoneOpt
         THEN find_syntax_by_extension(lang)[1].name
    ELSE <<"error">>

\* main.rs:451-454: by token, else by extension, else the plain-text syntax
find_syntax(lang) ==
    IF find_syntax_by_token(lang) # NoneOpt THEN find_syntax_by_token(lang)[1].name
    ELSE IF find_syntax_by_extension(lang) # NoneOpt
         THEN find_syntax_by_extension(lang)[1].name
    ELSE find_syntax_plain_text.name

PreClass == " class=\"bg-gray-900 text-gray-100 p-4 rounded-lg overflow-x-auto my-4\""

\* the Err arm that writes the code as it is
fallback_html_raw(code, lang) ==
    <<"<pre", PreClass, "><code class=\"language-">> \o lang \o <<"\">">>
        \o code \o <<"</code>", "</pre>">>

\* main.rs:477-483: the Err arm
fallback_html(code, lang) ==
    <<"<pre", PreClass, "><code class=\"language-">> \o lang \o <<"\">">>
        \o escape_html(code) \o <<"</code>", "</pre>">>

\* highlight_code(code, lang); ok is whether highlighted_html_for_string
\* returned Ok
highlight_code(code, lang, ok) ==
    IF ok
    THEN <<"<div class=\"code-block\"><div class=\"code-header\"><span class=\"code-lang\">">>
         \o (IF lang = <<>> THEN <<"t", "e", "x", "t">> ELSE lang)
         \o <<"</span><button class=\"copy-btn\"></button></div><div class=\"code-content\">",
              "<pre style>", "<span syntax=\"">> \o find_syntax(lang) \o <<"\">">>
         \o escape_html(code)
         \o <<"</span>", "</pre>", "</div></div>">>
    ELSE fallback_html(code, lang)

(* Runs of highlight_code on bounded code texts and language hints *)

MaxCodeLen == 3

PrintOne == <<"p","r","i","n","t","(","1",")">>

HlLangs ==
    {<<>>, <<"r","s">>, <<"p","y","t","h","o","n">>, <<"P","y","t","h","o","n">>,
     <<"t","e","x">>, <<"z","z">>, <<"t","x","t">>, <<"c","+","+">>}

HlIdle ==
    /\ hl_pc = "idle" /\ hl_code = <<>> /\ hl_lang = <<>>
    /\ hl_syntax = <<>> /\ hl_ok = TRUE /\ hl_out = <<>>

HlInit ==
    /\ hl_pc = "start"
    /\ \/ hl_code \in SeqsUpTo({"a", "b", "<", ">", "&"}, MaxCodeLen)
       \/ hl_code = PrintOne
    /\ hl_lang \in HlLangs
    /\ hl_syntax = <<>> /\ hl_ok = TRUE /\ hl_out = <<>>

\* main.rs:451-454: the syntax is looked up
HlFind ==
    /\ hl_pc = "start"
    /\ hl_syntax' = find_syntax(hl_lang)
    /\ hl_pc' = "found"
    /\ UNCHANGED <<hl_code, hl_lang, hl_ok, hl_out, nothl>>

\* main.rs:458-484: the rendering, which succeeds or fails, and the String returned
HlRender ==
    /\ hl_pc = "found"
    /\ \E ok \in BOOLEAN :
           /\ hl_ok' = ok
           /\ hl_out' = highlight_code(hl_code, hl_lang, ok)
    /\ hl_pc' = "done"
    /\ UNCHANGED <<hl_code, hl_lang, hl_syntax, nothl>>

HlNext == HlFind \/ HlRender

----------------------------------------------------------------------------
(* Markdown transducer: markdown_to_html *)

\* the heading flushed without its anchor id
heading_html_noid(level, slug, inner) ==
    <<"<h", LevelStr(level), ">">> \o inner \o <<"</h", LevelStr(level), ">">>

\* main.rs:292: format!("<h{} id=\"{}\">{}</h{}>", level, slug, heading_inner, level)
heading_html(level, slug, inner) ==
    <<"<h", LevelStr(level), " id=\"">> \o slug \o <<"\">">> \o inner
        \o <<"</h", LevelStr(level), ">">>

\* code_content kept from the block before (a missing clear())
code_start_content_keep(old) == old

\* main.rs:327: code_content.clear()
code_start_content(old) == <<>>

\* main.rs:328-331: the language of the block
code_start_lang(e) == IF e.fenced THEN e.lang ELSE <<>>

TaskCheckbox(checked) ==
    IF checked
    THEN <<"<input type=\"checkbox\" checked disabled class=\"mr-2 h-4 w-4 rounded border-gray-300 text-indigo-600 bg-indigo-600 accent-indigo-600\"> ">>
    ELSE <<"<input type=\"checkbox\" disabled class=\"mr-2 h-4 w-4 rounded border-gray-300 bg-gray-100 dark:bg-gray-700\"> ">>

\* the match without these arms: every such event goes to the default renderer
own_markup_default(e, head) == push_html(e)

\* main.rs:355-423: the arms that only append fixed markup
own_markup(e, head) ==
    CASE e.kind = "TableStart" -> <<"<div class=\"table-container\"><table>">>
      [] e.kind = "TableEnd" -> <<"</table></div>">>
      [] e.kind = "TableHeadStart" -> <<"<thead><tr>">>
      [] e.kind = "TableHeadEnd" -> <<"</tr></thead><tbody>">>
      [] e.kind = "TableRowStart" -> <<"<tr>">>
      [] e.kind = "TableRowEnd" -> <<"</tr>">>
      [] e.kind = "TableCellStart" -> IF head THEN <<"<th>">> ELSE <<"<td>">>
      [] e.kind = "TableCellEnd" -> IF head THEN <<"</th>">> ELSE <<"</td>">>
      [] e.kind = "TaskListMarker" -> TaskCheckbox(e.checked)
      [] e.kind = "FootnoteDefStart" ->
            <<"<div class=\"footnote\" id=\"fn-">> \o e.name \o <<"\"><sup>">>
            \o e.name \o <<"</sup> ">>
      [] e.kind = "FootnoteDefEnd" -> <<"</div>">>
      [] e.kind = "FootnoteReference" ->
            <<"<sup><a href=\"#fn-">> \o e.name \o <<"\" class=\"footnote-ref\">[">>
            \o e.name \o <<"]</a></sup>">>
      [] e.kind = "StrikethroughStart" -> <<"<del class=\"line-through text-gray-500\">">>
      [] e.kind = "StrikethroughEnd" -> <<"</del>">>
      [] e.kind = "BlockQuoteStart" ->
            <<"<blockquote class=\"border-l-4 border-primary-500 pl-4 my-4 italic text-gray-600 dark:text-gray-400\">">>
      [] e.kind = "BlockQuoteEnd" -> <<"</blockquote>">>

OwnMarkupKinds ==
    {"TableStart", "TableEnd", "TableHeadStart", "TableHeadEnd", "TableRowStart",
     "TableRowEnd", "TableCellStart", "TableCellEnd", "TaskListMarker",
     "FootnoteDefStart", "FootnoteDefEnd", "FootnoteReference",
     "StrikethroughStart", "StrikethroughEnd", "BlockQuoteStart", "BlockQuoteEnd"}

\* the flag once set is never cleared
table_head_sticky(e, head) == e.kind = "TableHeadStart" \/ head

\* main.rs:361-368: in_table_head after the event e
table_head_after(e, head) ==
    CASE e.kind = "TableHeadStart" -> TRUE
      [] e.kind = "TableHeadEnd" -> FALSE
      [] OTHER -> head

\* main.rs:287-322: the event e while a heading is buffered
HeadingArm(e) ==
    /\ IF e.kind = "HeadingEnd"
       THEN /\ html_output' = html_output
                \o heading_html(heading_level[1], slugify(heading_text), heading_inner)
            /\ heading_level' = NoneOpt
            /\ heading_text' = <<>>
            /\ heading_inner' = <<>>
       ELSE /\ heading_text' =
                (CASE e.kind \in {"Text", "Code"} -> heading_text \o e.text
                   [] e.kind \in {"SoftBreak", "HardBreak"} -> Append(heading_text, " ")
                   [] OTHER -> heading_text)
            /\ heading_inner' = heading_inner \o push_html(e)
            /\ UNCHANGED <<html_output, heading_level>>
    /\ UNCHANGED <<in_code_block, code_lang, code_content, in_table_head, hl_calls,
                   hl_results>>

\* main.rs:324-429: the match on the event e outside a heading
NormalArm(e) ==
    CASE e.kind = "CodeBlockStart" ->
            /\ in_code_block' = TRUE
            /\ code_content' = code_start_content(code_content)
            /\ code_lang' = code_start_lang(e)
            /\ UNCHANGED <<html_output, in_table_head, heading_level, heading_text,
                           heading_inner, hl_calls, hl_results>>
      [] e.kind = "CodeBlockEnd" ->
            /\ in_code_block' = FALSE
            /\ \E ok \in BOOLEAN :
                /\ html_output' = html_output \o highlight_code(code_content, code_lang, ok)
                /\ hl_results' = Append(hl_results, ok)
            /\ hl_calls' = Append(hl_calls, [code |-> code_content, lang |-> code_lang])
            /\ UNCHANGED <<code_lang, code_content, in_table_head, heading_level,
                           heading_text, heading_inner>>
      [] e.kind = "Text" /\ in_code_block ->
            /\ code_content' = code_content \o e.text
            /\ UNCHANGED <<html_output, in_code_block, code_lang, in_table_head,
                           heading_level, heading_text, heading_inner, hl_calls, hl_results>>
      [] e.kind = "HeadingStart" ->
            /\ heading_level' = Some(e.level)
            /\ heading_text' = <<>>
            /\ heading_inner' = <<>>
            /\ UNCHANGED <<html_output, in_code_block, code_lang, code_content,
                           in_table_head, hl_calls, hl_results>>
      [] e.kind \in OwnMarkupKinds ->
            /\ html_output' = html_output \o own_markup(e, in_table_head)
            /\ in_table_head' = table_head_after(e, in_table_head)
            /\ UNCHANGED <<in_code_block, code_lang, code_content, heading_level,
                           heading_text, heading_inner, hl_calls, hl_results>>
      [] OTHER ->
            /\ html_output' = html_output \o push_html(e)
            /\ UNCHANGED <<in_code_block, code_lang, code_content, in_table_head,
                           heading_level, heading_text, heading_inner, hl_calls, hl_results>>

\* one iteration of `while i < events.len()`
MdStep ==
    /\ md_pc = "run"
    /\ i < Len(events)
    /\ IF heading_level # NoneOpt
       THEN HeadingArm(events[i + 1])
       ELSE NormalArm(events[i + 1])
    /\ i' = i + 1
    /\ UNCHANGED <<md_pc, events, rendered, notmd>>

\* main.rs:433: html_output is returned
MdReturn ==
    /\ md_pc = "run"
    /\ i = Len(events)
    /\ md_pc' = "done"
    /\ UNCHANGED <<events, i, html_output, in_code_block, code_lang, code_content,
                   in_table_head, heading_level, heading_text, heading_inner, hl_calls,
                   hl_results, rendered, notmd>>

MdNext == MdStep \/ MdReturn

----------------------------------------------------------------------------
(* Event sequences the transducer is run on: what the parser produces for a  *)
(* body of at most MaxBlocks blocks.  A heading holds inline events only, a  *)
(* code block holds text events only.                                        *)

MaxBlocks == 2

HelloWorld == <<"H","e","l","l","o",","," ","W","o","r","l","d","!">>

Heading(level, inline) == <<HeadingStart(level)>> \o inline \o <<HeadingEnd(level)>>

HeadingBlocks ==
    {Heading(2, <<Text(HelloWorld)>>),
     Heading(1, <<Text(<<"A", " ">>), Code(<<"b", "<", "c">>)>>),
     Heading(3, <<Text(<<"a">>), Ev("SoftBreak"), Text(<<"b">>)>>),
     Heading(6, <<Text(<<"a">>), Ev("HardBreak"), Text(<<"b">>)>>),
     Heading(2, <<Text(<<"x", " ">>), Ev("EmphasisStart"), Text(<<"Y", "&">>),
                  Ev("EmphasisEnd")>>),
     Heading(4, <<Ev("StrikethroughStart"), Text(<<"o">>), Ev("StrikethroughEnd"),
                  FootnoteReference(<<"n">>)>>),
     Heading(5, <<>>)}

CodeBlock(fenced, lang, texts) ==
    <<CodeBlockStart(fenced, lang)>> \o [k \in 1..Len(texts) |-> Text(texts[k])]
        \o <<Ev("CodeBlockEnd")>>

CodeBlocks ==
    {CodeBlock(TRUE, <<"r", "s">>, <<<<"a", "<", "b", "\n">>>>),
     CodeBlock(TRUE, <<"p", "y">>, <<<<"x", "\n">>, <<"y", "\n">>>>),
     CodeBlock(TRUE, <<"z">>, <<<<"&", "\n">>>>),
     CodeBlock(TRUE, <<>>, <<>>),
     CodeBlock(FALSE, <<>>, <<<<"i", "\n">>>>)}

Paragraph(inline) == <<Ev("ParagraphStart")>> \o inline \o <<Ev("ParagraphEnd")>>

OtherBlocks ==
    {Paragraph(<<Text(<<"t", "<">>)>>),
     Paragraph(<<Text(<<"a">>), Code(<<"c">>), Ev("StrikethroughStart"), Text(<<"s">>),
                 Ev("StrikethroughEnd"), FootnoteReference(<<"n">>), Ev("SoftBreak"),
                 Ev("EmphasisStart"), Text(<<"e">>), Ev("EmphasisEnd")>>),
     <<Ev("TableStart"), Ev("TableHeadStart"), Ev("TableCellStart"), Text(<<"h">>),
       Ev("TableCellEnd"), Ev("TableHeadEnd"), Ev("TableRowStart"),
       Ev("TableCellStart"), Text(<<"d">>), Ev("TableCellEnd"), Ev("TableRowEnd"),
       Ev("TableEnd")>>,
     <<Ev("TableStart"), Ev("TableHeadStart"), Ev("TableCellStart"), Text(<<"x">>),
       Ev("TableCellEnd"), Ev("TableCellStart"), Code(<<"y">>), Ev("TableCellEnd"),
       Ev("TableHeadEnd"), Ev("TableRowStart"), Ev("TableCellStart"), Text(<<"1">>),
       Ev("TableCellEnd"), Ev("TableCellStart"), Ev("TableCellEnd"), Ev("TableRowEnd"),
       Ev("TableRowStart"), Ev("TableCellStart"), Ev("StrikethroughStart"),
       Text(<<"2">>), Ev("StrikethroughEnd"), Ev("TableCellEnd"), Ev("TableCellStart"),
       Text(<<"3">>), Ev("TableCellEnd"), Ev("TableRowEnd"), Ev("TableEnd")>>,
     <<Ev("ListStart"), Ev("ItemStart"), TaskListMarker(TRUE), Text(<<"d">>),
       Ev("ItemEnd"), Ev("ItemStart"), TaskListMarker(FALSE), Text(<<"u">>),
       Ev("ItemEnd"), Ev("ListEnd")>>,
     <<FootnoteDefStart(<<"n">>)>> \o Paragraph(<<Text(<<"f">>)>>)
        \o <<Ev("FootnoteDefEnd")>>,
     <<Ev("BlockQuoteStart")>> \o Paragraph(<<Text(<<"q">>)>>) \o <<Ev("BlockQuoteEnd")>>,
     <<Ev("BlockQuoteStart")>> \o Heading(3, <<Text(<<"Q">>)>>)
        \o CodeBlock(TRUE, <<"r", "s">>, <<<<"c">>>>) \o <<Ev("BlockQuoteEnd")>>}

BlockSet == HeadingBlocks \cup CodeBlocks \cup OtherBlocks

EventSeqs == {Concat(bs) : bs \in SeqsUpTo(BlockSet, MaxBlocks)}

MdIdle ==
    /\ md_pc = "idle" /\ events = <<>> /\ i = 0 /\ html_output = <<>>
    /\ in_code_block = FALSE /\ code_lang = <<>> /\ code_content = <<>>
    /\ in_table_head = FALSE /\ heading_level = NoneOpt
    /\ heading_text = <<>> /\ heading_inner = <<>> /\ hl_calls = <<>>
    /\ hl_results = <<>> /\ rendered = <<>>

\* main.rs:261-283: the state of a call before its first event
MdInit ==
    /\ md_pc = "run" /\ events \in EventSeqs /\ i = 0 /\ html_output = <<>>
    /\ in_code_block = FALSE /\ code_lang = <<>> /\ code_content = <<>>
    /\ in_table_head = FALSE /\ heading_level = NoneOpt
    /\ heading_text = <<>> /\ heading_inner = <<>> /\ hl_calls = <<>>
    /\ hl_results = <<>> /\ rendered = <<>>

----------------------------------------------------------------------------
(* Reading time: calculate_reading_time *)

WordsPerMinute == 200

\* the count of split(' '): one more than the number of spaces
count_words_by_space(text) ==
    Cardinality({k \in 1..Len(text) : text[k] = " "}) + 1

\* content.split_whitespace().count(): a word starts at every non-whitespace
\* character that is the first one or follows whitespace.  (The cast to u32 is
\* exact for every count below 2^32.)
count_words(text) ==
    Cardinality({k \in 1..Len(text) :
                    /\ ~is_whitespace(text[k])
                    /\ (k = 1 \/ is_whitespace(text[k - 1]))})

\* the division without the floor of one minute
reading_time_nomax(wc) == wc \div WordsPerMinute

\* main.rs:490: (word_count / 200).max(1)
reading_time_of(wc) ==
    IF wc \div WordsPerMinute >= 1 THEN wc \div WordsPerMinute ELSE 1

\* calculate_reading_time(content): (reading_time, word_count)
calculate_reading_time(text) ==
    LET wc == count_words(text)
    IN  <<reading_time_of(wc), wc>>

(* Bodies the function is run on: n one-letter words, a separator between   *)
(* them, optional whitespace before and after                               *)

MaxWords == 401

RtSeps == {<<" ">>, <<"\n">>, <<" ", "\t", " ">>}

RtBody(in) ==
    LET step == 1 + Len(in.sep)
        len == IF in.n = 0 THEN 0 ELSE in.n * step - Len(in.sep)
    IN  (IF in.lead THEN <<" ">> ELSE <<>>)
        \o [k \in 1..len |-> IF (k - 1) % step = 0 THEN "w" ELSE in.sep[(k - 1) % step]]
        \o (IF in.trail THEN <<"\n">> ELSE <<>>)

RtIdle ==
    /\ rt_pc = "idle"
    /\ rt_in = [n |-> 0, sep |-> <<" ">>, lead |-> FALSE, trail |-> FALSE]
    /\ reading_time = 0 /\ word_count = 0
    /\ rt_post = [reading_time |-> 0, word_count |-> 0]
    /\ rt_padded = <<0, 0>>

RtInit ==
    /\ rt_pc = "start"
    /\ rt_in \in [n : 0..MaxWords, sep : RtSeps, lead : BOOLEAN, trail : BOOLEAN]
    /\ reading_time = 0 /\ word_count = 0
    /\ rt_post = [reading_time |-> 0, word_count |-> 0]
    /\ rt_padded = <<0, 0>>

\* main.rs:506: let (reading_time, word_count) = calculate_reading_time(content_str)
RtCalc ==
    /\ rt_pc = "start"
    /\ reading_time' = calculate_reading_time(RtBody(rt_in))[1]
    /\ word_count' = calculate_reading_time(RtBody(rt_in))[2]
    /\ rt_pc' = "computed"
    /\ UNCHANGED <<rt_in, rt_post, rt_padded, notrt>>

\* main.rs:552-553: the two fields of the Post
RtStore ==
    /\ rt_pc = "computed"
    /\ rt_post' = [reading_time |-> reading_time, word_count |-> word_count]
    /\ rt_pc' = "stored"
    /\ UNCHANGED <<rt_in, reading_time, word_count, rt_padded, notrt>>

\* calculate_reading_time called on the same body followed by one space
RtCalcPadded ==
    /\ rt_pc = "stored"
    /\ rt_padded' = calculate_reading_time(RtBody(rt_in) \o <<" ">>)
    /\ rt_pc' = "padded"
    /\ UNCHANGED <<rt_in, reading_time, word_count, rt_post, notrt>>

RtNext == RtCalc \/ RtStore \/ RtCalcPadded

----------------------------------------------------------------------------
(* Calendar dates and instants (chrono), as far as get_posts uses them *)

DigitSeq == <<"0","1","2","3","4","5","6","7","8","9">>

DigitVal(c) == (CHOOSE n \in 1..10 : DigitSeq[n] = c) - 1

RECURSIVE Num(_)
Num(ds) ==
    IF ds = <<>> THEN 0
    ELSE 10 * Num(SubSeq(ds, 1, Len(ds) - 1)) + DigitVal(ds[Len(ds)])

Pad2(n) == <<DigitSeq[((n \div 10) % 10) + 1], DigitSeq[(n % 10) + 1]>>

Pad4(n) == Pad2(n \div 100) \o Pad2(n % 100)

IsLeap(y) == (y % 4 = 0 /\ y % 100 # 0) \/ y % 400 = 0

DaysIn(y, m) ==
    IF m = 2 THEN (IF IsLeap(y) THEN 29 ELSE 28)
    ELSE IF m \in {4, 6, 9, 11} THEN 30 ELSE 31

MonthNames ==
    <<"January", "February", "March", "April", "May", "June", "July",
      "August", "September", "October", "November", "December">>

\* DateTime::parse_from_str("{date} 00:00:00 +0000", "%Y-%m-%d %H:%M:%S %z"):
\* Some(midnight UTC of the day) when the text is year-month-day in digits
\* and names a day of the calendar, None otherwise
parse_date(text) ==
    LET ps == split(text, "-")
        digits(p, w) == /\ Len(p) \in 1..w
                        /\ \A k \in 1..Len(p) : p[k] \in DigitChars
    IN  IF /\ Len(ps) = 3
           /\ digits(ps[1], 4) /\ digits(ps[2], 2) /\ digits(ps[3], 2)
           /\ Num(ps[2]) \in 1..12
           /\ Num(ps[3]) \in 1..DaysIn(Num(ps[1]), Num(ps[2]))
        THEN Some([y |-> Num(ps[1]), mo |-> Num(ps[2]), d |-> Num(ps[3]), h |-> 0])
        ELSE NoneOpt

\* the order of two instants on the hour
instant_before(a, b) ==
    \/ a.y < b.y
    \/ a.y = b.y /\ a.mo < b.mo
    \/ a.y = b.y /\ a.mo = b.mo /\ a.d < b.d
    \/ a.y = b.y /\ a.mo = b.mo /\ a.d = b.d /\ a.h < b.h

\* the UTC offset, in hours, the zone has at an instant: the summer offset
\* from the zone's change to summer time up to its change back
offset_at(zone, utc) ==
    IF ~instant_before(utc, zone.from) /\ instant_before(utc, zone.to)
    THEN zone.summer ELSE zone.winter

\* Local.from_utc_datetime / DateTime::<Local>::from: the local wall clock
to_local(zone, utc) ==
    LET off == offset_at(zone, utc)
        hh == utc.h + off
    IN  IF hh < 0
        THEN IF utc.d > 1
             THEN [y |-> utc.y, mo |-> utc.mo, d |-> utc.d - 1, h |-> hh + 24, off |-> off]
             ELSE IF utc.mo > 1
             THEN [y |-> utc.y, mo |-> utc.mo - 1, d |-> DaysIn(utc.y, utc.mo - 1),
                   h |-> hh + 24, off |-> off]
             ELSE [y |-> utc.y - 1, mo |-> 12, d |-> 31, h |-> hh + 24, off |-> off]
        ELSE IF hh >= 24
        THEN IF utc.d < DaysIn(utc.y, utc.mo)
             THEN [y |-> utc.y, mo |-> utc.mo, d |-> utc.d + 1, h |-> hh - 24, off |-> off]
             ELSE IF utc.mo < 12
             THEN [y |-> utc.y, mo |-> utc.mo + 1, d |-> 1, h |-> hh - 24, off |-> off]
             ELSE [y |-> utc.y + 1, mo |-> 1, d |-> 1, h |-> hh - 24, off |-> off]
        ELSE [y |-> utc.y, mo |-> utc.mo, d |-> utc.d, h |-> hh, off |-> off]

\* date.format("%B %d, %Y")
format_display(local) ==
    <<MonthNames[local.mo], " ">> \o Pad2(local.d) \o <<",", " ">> \o Pad4(local.y)

\* date.format("%Y-%m-%dT%H:%M:%S%z"); the instants are on the hour
format_iso(local) ==
    Pad4(local.y) \o <<"-">> \o Pad2(local.mo) \o <<"-">> \o Pad2(local.d)
        \o <<"T">> \o Pad2(local.h) \o <<":", "0", "0", ":", "0", "0">>
        \o (IF local.off < 0 THEN <<"-">> \o Pad2(0 - local.off)
                             ELSE <<"+">> \o Pad2(local.off))
        \o <<"0", "0">>

\* the code points of the characters of a date_iso
CharCode(c) ==
    CASE c = "+" -> 43
      [] c = "-" -> 45
      [] c = ":" -> 58
      [] c = "T" -> 84
      [] OTHER   -> 48 + DigitVal(c)

\* a < b for str: the first difference decides, a proper prefix is smaller
str_less(a, b) ==
    \E k \in 1..Len(b) :
        /\ k <= Len(a) + 1
        /\ \A j \in 1..(k - 1) : a[j] = b[j]
        /\ (k = Len(a) + 1 \/ CharCode(a[k]) < CharCode(b[k]))

----------------------------------------------------------------------------
(* get_posts *)

SiteUrl == <<"http://localhost:8080">>

SiteAuthor == <<"aryansrao">>

SummaryChars == 160

KeywordTags == 5

Take(s, n) == SubSeq(s, 1, IF Len(s) < n THEN Len(s) ELSE n)

\* Path::extension: what follows the last dot of the file name, None when
\* there is no dot or the only dot is the first character
extension(name) ==
    LET dots == {k \in 1..Len(name) : name[k] = "."}
        last == CHOOSE k \in dots : \A j \in dots : j <= k
    IN  IF dots = {} \/ last = 1 THEN NoneOpt
        ELSE Some(SubSeq(name, last + 1, Len(name)))

is_md(name) == extension(name) = Some(<<"m", "d">>)

\* the date that never asks the file for its last-modified time
resolve_date_nomtime(m, file, zone, clock) ==
    LET d == parse_date(m.date)
    IN  IF d # NoneOpt THEN to_local(zone, d[1]) ELSE to_local(zone, clock)

\* main.rs:508-519: the date of the post
resolve_date(m, file, zone, clock) ==
    LET d == parse_date(m.date)
    IN  IF d # NoneOpt THEN to_local(zone, d[1])
        ELSE IF file.mtime # NoneOpt THEN to_local(zone, file.mtime[1])
        ELSE to_local(zone, clock)

\* the canonical URL that takes an empty value for a missing one
canonical_nonempty(m, slug) ==
    IF m.canonical = NoneOpt \/ m.canonical = Some(<<>>)
    THEN SiteUrl \o <<"/blog/">> \o slug
    ELSE m.canonical[1]

\* main.rs:549-551: metadata.canonical.unwrap_or_else(|| format!("{}/blog/{}", url, slug))
canonical_of(m, slug) ==
    IF m.canonical = NoneOpt THEN SiteUrl \o <<"/blog/">> \o slug
    ELSE m.canonical[1]

\* the fallback summary that takes the whole body
summary_whole_body(m, body) ==
    IF m.summary = <<>> THEN body \o <<".", ".", ".">> ELSE m.summary

\* main.rs:533-537: the summary of the post
summary_of(m, body) ==
    IF m.summary = <<>>
    THEN Take(body, SummaryChars) \o <<".", ".", ".">>
    ELSE m.summary

\* main.rs:504-556: the Post of a document whose metadata is m (its content,
\* the HTML of the body, is rendered by markdown_to_html)
build_post(m, text, file, zone, clock) ==
    LET body == body_of(text)
        rt == calculate_reading_time(body)
        date == resolve_date(m, file, zone, clock)
        slug == title_slug(m.title)
    IN  [title        |-> m.title,
         summary      |-> summary_of(m, body),
         date         |-> format_display(date),
         date_iso     |-> format_iso(date),
         tags         |-> m.tags,
         filename     |-> file.name,
         slug         |-> slug,
         author       |-> IF m.author = NoneOpt THEN SiteAuthor ELSE m.author[1],
         image        |-> IF m.image = NoneOpt THEN SiteUrl \o <<"/og-default.png">>
                          ELSE m.image[1],
         image_alt    |-> IF m.image_alt = NoneOpt THEN m.title ELSE m.image_alt[1],
         keywords     |-> IF m.keywords = NoneOpt
                          THEN join(Take(m.tags, KeywordTags), <<",", " ">>)
                          ELSE m.keywords[1],
         canonical    |-> canonical_of(m, slug),
         reading_time |-> rt[1],
         word_count   |-> rt[2],
         website      |-> m.website,
         github_repo  |-> m.github_repo]

\* the loop body that gives up the posts built so far at a document it rejects
visit_abort(ps, file, zone, clock) ==
    IF is_md(file.name) /\ file.readable /\ parse_metadata(DocOf(file.doc)) # NoneOpt
    THEN Append(ps, build_post(parse_metadata(DocOf(file.doc))[1], DocOf(file.doc),
                               file, zone, clock))
    ELSE <<>>

\* main.rs:500-561: the loop body for one directory entry
visit(ps, file, zone, clock) ==
    IF ~is_md(file.name) THEN ps
    ELSE IF ~file.readable THEN ps
    ELSE LET text == DocOf(file.doc)
             m == parse_metadata(text)
         IN  IF m = NoneOpt THEN ps
             ELSE Append(ps, build_post(m[1], text, file, zone, clock))

\* cmp(a, b) = Less for the comparator |a, b| b.date_iso.cmp(&a.date_iso)
comes_before(a, b) == str_less(b.date_iso, a.date_iso)

RECURSIVE insert_stable(_, _)
insert_stable(sorted, p) ==
    IF sorted = <<>> THEN <<p>>
    ELSE IF comes_before(p, Head(sorted)) THEN <<p>> \o sorted
    ELSE <<Head(sorted)>> \o insert_stable(Tail(sorted), p)

RECURSIVE sort_from(_, _)
sort_from(sorted, rest) ==
    IF rest = <<>> THEN sorted
    ELSE sort_from(insert_stable(sorted, Head(rest)), Tail(rest))

\* the sort that leaves the list as the loop built it
sort_by_none(ps) == ps

\* posts.sort_by(..): a stable sort
sort_by(ps) == sort_from(<<>>, ps)

(* The content directory: files of a catalogue, in any order *)

MaxFiles == 2

TitleLine(t, quoted) ==
    [key |-> "title", pad |-> FALSE, colon |-> TRUE, quoted |-> quoted, val |-> t]

DateLine(d, quoted) ==
    [key |-> "date", pad |-> FALSE, colon |-> TRUE, quoted |-> quoted, val |-> d]

PostDoc(ls, body) == [kind |-> "lines", items |-> ls, body |-> body]

RawDoc(d) == [kind |-> "chars", doc |-> d]

File(name, doc, mtime, readable) ==
    [name |-> name, doc |-> doc, mtime |-> mtime, readable |-> readable]

Instant(y, mo, d, h) == [y |-> y, mo |-> mo, d |-> d, h |-> h]

HelloWorldTitle == <<"H","e","l","l","o",","," ","W","o","r","l","d","!">>

Jan02 == <<"2","0","2","4","-","0","1","-","0","2">>

Jan01 == <<"2","0","2","4","-","0","1","-","0","1">>

Oct27 == <<"2","0","2","4","-","1","0","-","2","7">>

BadDate == <<"2","0","2","4","-","1","3","-","4","0">>

TwoWords == <<"\n","t","w","o"," ","w","o","r","d","s","\n">>

MaxBodyLen == 165

\* a body longer than a summary: digits in words of six
LongBody ==
    [k \in 1..MaxBodyLen |-> IF k % 7 = 0 THEN " " ELSE DigitSeq[(k % 10) + 1]]

CanonicalLine(t, quoted) ==
    [key |-> "canonical", pad |-> FALSE, colon |-> TRUE, quoted |-> quoted, val |-> t]

ExampleUrl == <<"h","t","t","p","s",":","/","/","x",".","y","/","p">>

SummaryLine(t, quoted) ==
    [key |-> "summary", pad |-> FALSE, colon |-> TRUE, quoted |-> quoted, val |-> t]

FileCatalogue ==
    {File(<<"a",".","m","d">>,
          PostDoc(<<TitleLine(HelloWorldTitle, TRUE), DateLine(Jan02, FALSE),
                    CanonicalLine(ExampleUrl, FALSE)>>, TwoWords),
          Some(Instant(2024, 2, 1, 9)), TRUE),
     File(<<"b",".","m","d">>,
          PostDoc(<<TitleLine(<<"h","e","l","l","o"," ","w","o","r","l","d">>, FALSE),
                    DateLine(Jan01, TRUE),
                    SummaryLine(<<"A"," ","s","u","m",".">>, TRUE)>>, LongBody),
          Some(Instant(2024, 2, 1, 9)), TRUE),
     File(<<"c",".","m","d">>,
          PostDoc(<<TitleLine(<<"B">>, FALSE), DateLine(BadDate, TRUE)>>, TwoWords),
          Some(Instant(2024, 3, 5, 10)), TRUE),
     File(<<"d",".","m","d">>,
          PostDoc(<<TitleLine(<<"C","+","+">>, FALSE)>>, <<>>),
          NoneOpt, TRUE),
     File(<<"e",".","m","d">>,
          RawDoc(Fence \o <<"t","i","t","l","e",":"," ","x","\n">>),
          Some(Instant(2024, 3, 5, 10)), TRUE),
     File(<<"n",".","t","x","t">>,
          PostDoc(<<TitleLine(<<"T">>, FALSE), DateLine(Jan02, FALSE)>>, <<"x">>),
          Some(Instant(2024, 3, 5, 10)), TRUE),
     File(<<".","m","d">>,
          PostDoc(<<TitleLine(<<"T">>, FALSE), DateLine(Jan02, FALSE)>>, <<"x">>),
          Some(Instant(2024, 3, 5, 10)), TRUE),
     File(<<"g",".","m","d">>,
          PostDoc(<<TitleLine(<<IDot,"x"," "," ","A","-","b","_","1">>, FALSE),
                    DateLine(<<"2","0","2","3","-","1","2","-","3","1">>, FALSE)>>,
                  LongBody),
          Some(Instant(2024, 3, 5, 10)), TRUE),
     File(<<"h",".","m","d">>,
          PostDoc(<<TitleLine(HelloWorldTitle, FALSE), DateLine(Jan02, FALSE),
                    CanonicalLine(<<>>, FALSE)>>, <<"y">>),
          NoneOpt, TRUE),
     File(<<"a",".","m","d">>,
          PostDoc(<<TitleLine(<<"-","-">>, FALSE),
                    DateLine(Oct27, FALSE)>>, <<"x">>),
          Some(Instant(2024, 2, 1, 9)), TRUE),
     File(<<"m",".","m","d">>,
          PostDoc(<<TitleLine(<<"M">>, FALSE), DateLine(BadDate, FALSE)>>, <<"x">>),
          Some(Instant(2024, 10, 27, 1)), TRUE),
     File(<<"j",".","m","d">>,
          PostDoc(<<DateLine(Jan01, FALSE), SummaryLine(<<>>, FALSE)>>, <<"x">>),
          Some(Instant(2024, 12, 31, 23)), TRUE),
     File(<<"k",".","m","d">>,
          PostDoc(<<TitleLine(<<"T">>, FALSE), DateLine(Jan02, FALSE)>>, <<"x">>),
          Some(Instant(2024, 3, 5, 10)), FALSE)}

\* the zones of the runs, each with its offsets and its two changes of 2024;
\* the instants of other years in the runs lie in winter time
Zones ==
    {[name |-> "UTC", winter |-> 0, summer |-> 0,
      from |-> Instant(2024, 1, 1, 0), to |-> Instant(2024, 1, 1, 0)],
     [name |-> "America/New_York", winter |-> 0 - 5, summer |-> 0 - 4,
      from |-> Instant(2024, 3, 10, 7), to |-> Instant(2024, 11, 3, 6)],
     [name |-> "Europe/Berlin", winter |-> 1, summer |-> 2,
      from |-> Instant(2024, 3, 31, 1), to |-> Instant(2024, 10, 27, 1)]}

Clocks == {Instant(2024, 6, 30, 22), Instant(2025, 1, 1, 0)}

\* a directory holds files of distinct names
IsDirectory(fs) ==
    \A p, q \in 1..Len(fs) : p # q => fs[p].name # fs[q].name

GpIdle ==
    /\ gp_pc = "idle" /\ entries = <<>> /\ gp_k = 0 /\ posts = <<>>
    /\ tz = [name |-> "UTC", winter |-> 0, summer |-> 0,
             from |-> Instant(2024, 1, 1, 0), to |-> Instant(2024, 1, 1, 0)]
    /\ now = Instant(2024, 6, 30, 22)

\* main.rs:496-499: the empty list, the entries of the content directory
GpInit ==
    /\ gp_pc = "loop"
    /\ entries \in SeqsUpTo(FileCatalogue, MaxFiles)
    /\ IsDirectory(entries)
    /\ tz \in Zones
    /\ now \in Clocks
    /\ gp_k = 0
    /\ posts = <<>>

\* main.rs:500-561: one iteration of the loop over the entries
GpVisit ==
    /\ gp_pc = "loop"
    /\ gp_k < Len(entries)
    /\ posts' = visit(posts, entries[gp_k + 1], tz, now)
    /\ gp_k' = gp_k + 1
    /\ UNCHANGED <<gp_pc, entries, tz, now, notgp>>

\* main.rs:564-565: the sort, and the list is returned
GpSort ==
    /\ gp_pc = "loop"
    /\ gp_k = Len(entries)
    /\ posts' = sort_by(posts)
    /\ gp_pc' = "done"
    /\ UNCHANGED <<entries, tz, now, gp_k, notgp>>

GpNext == GpVisit \/ GpSort

----------------------------------------------------------------------------
(* get_posts with its calls of markdown_to_html: one call for each document  *)
(* that reaches the rendering, in the order of the entries                   *)

MaxCalls == 3

\* a file and the events the parser produces for its body
Parsed(file, evs) ==
    [name |-> file.name, doc |-> file.doc, mtime |-> file.mtime,
     readable |-> file.readable, events |-> evs]

HeadingBody == <<"#", "#", " ">> \o HelloWorld \o <<"\n">>

CodeBody == <<"~","~","~","r","s","\n","a","<","b","\n","~","~","~","\n">>

TableBody == <<"|","h","|","\n","|","-","|","\n","|","d","|","\n">>

TableEvents ==
    <<Ev("TableStart"), Ev("TableHeadStart"), Ev("TableCellStart"), Text(<<"h">>),
      Ev("TableCellEnd"), Ev("TableHeadEnd"), Ev("TableRowStart"),
      Ev("TableCellStart"), Text(<<"d">>), Ev("TableCellEnd"), Ev("TableRowEnd"),
      Ev("TableEnd")>>

CallFiles ==
    {Parsed(File(<<"p",".","m","d">>,
                 PostDoc(<<TitleLine(<<"P">>, FALSE), DateLine(Jan02, FALSE)>>, HeadingBody),
                 Some(Instant(2024, 2, 1, 9)), TRUE),
            Heading(2, <<Text(HelloWorld)>>)),
     Parsed(File(<<"q",".","m","d">>,
                 PostDoc(<<TitleLine(<<"Q">>, TRUE), DateLine(Jan01, FALSE)>>, HeadingBody),
                 NoneOpt, TRUE),
            Heading(2, <<Text(HelloWorld)>>)),
     Parsed(File(<<"r",".","m","d">>,
                 PostDoc(<<TitleLine(<<"R">>, FALSE)>>, CodeBody),
                 Some(Instant(2024, 3, 5, 10)), TRUE),
            CodeBlock(TRUE, <<"r", "s">>, <<<<"a", "<", "b", "\n">>>>)),
     Parsed(File(<<"s",".","m","d">>,
                 PostDoc(<<TitleLine(<<"S">>, FALSE), DateLine(Oct27, FALSE)>>, CodeBody),
                 Some(Instant(2024, 3, 5, 10)), TRUE),
            CodeBlock(TRUE, <<"r", "s">>, <<<<"a", "<", "b", "\n">>>>)),
     Parsed(File(<<"t",".","m","d">>,
                 PostDoc(<<TitleLine(<<"T">>, FALSE), DateLine(Jan02, FALSE)>>, TableBody),
                 Some(Instant(2024, 3, 5, 10)), TRUE),
            TableEvents),
     Parsed(File(<<"u",".","t","x","t">>,
                 PostDoc(<<TitleLine(<<"U">>, FALSE), DateLine(Jan02, FALSE)>>, HeadingBody),
                 Some(Instant(2024, 3, 5, 10)), TRUE),
            Heading(2, <<Text(HelloWorld)>>))}

\* what the actions of these two components leave alone
notmdgp == <<slvars, pmvars, rtvars, hlvars, advars>>

\* main.rs:501-504: the entry reaches the rendering
is_rendered(file) ==
    /\ is_md(file.name)
    /\ file.readable
    /\ parse_metadata(DocOf(file.doc)) # NoneOpt

\* main.rs:496-499: the empty list, the entries of the content directory
CallsInit ==
    /\ gp_pc = "loop"
    /\ entries \in SeqsUpTo(CallFiles, MaxCalls)
    /\ IsDirectory(entries)
    /\ tz \in Zones
    /\ now \in Clocks
    /\ gp_k = 0
    /\ posts = <<>>

\* main.rs:500-504: an entry that is passed over
CallsSkip ==
    /\ gp_pc = "loop"
    /\ md_pc = "idle"
    /\ gp_k < Len(entries)
    /\ ~is_rendered(entries[gp_k + 1])
    /\ posts' = visit(posts, entries[gp_k + 1], tz, now)
    /\ gp_k' = gp_k + 1
    /\ UNCHANGED <<gp_pc, entries, tz, now, notgp>>

\* the call whose output buffer is kept from the call before
CallsBeginShared ==
    /\ gp_pc = "loop"
    /\ md_pc = "idle"
    /\ gp_k < Len(entries)
    /\ is_rendered(entries[gp_k + 1])
    /\ md_pc' = "run"
    /\ events' = entries[gp_k + 1].events
    /\ i' = 0
    /\ html_output' = html_output
    /\ in_code_block' = FALSE
    /\ code_lang' = <<>>
    /\ code_content' = <<>>
    /\ in_table_head' = FALSE
    /\ heading_level' = NoneOpt
    /\ heading_text' = <<>>
    /\ heading_inner' = <<>>
    /\ hl_calls' = <<>>
    /\ hl_results' = <<>>
    /\ UNCHANGED <<rendered, notmd>>

\* main.rs:505 and 261-283: markdown_to_html is called on the body of the
\* entry; its locals are declared and the events collected
CallsBegin ==
    /\ gp_pc = "loop"
    /\ md_pc = "idle"
    /\ gp_k < Len(entries)
    /\ is_rendered(entries[gp_k + 1])
    /\ md_pc' = "run"
    /\ events' = entries[gp_k + 1].events
    /\ i' = 0
    /\ html_output' = <<>>
    /\ in_code_block' = FALSE
    /\ code_lang' = <<>>
    /\ code_content' = <<>>
    /\ in_table_head' = FALSE
    /\ heading_level' = NoneOpt
    /\ heading_text' = <<>>
    /\ heading_inner' = <<>>
    /\ hl_calls' = <<>>
    /\ hl_results' = <<>>
    /\ UNCHANGED <<rendered, notmd>>

\* main.rs:505-558: the call has returned and the Post is built and pushed
CallsPost ==
    /\ gp_pc = "loop"
    /\ md_pc = "done"
    /\ posts' = visit(posts, entries[gp_k + 1], tz, now)
    /\ rendered' = Append(rendered, [filename |-> entries[gp_k + 1].name,
                                     events |-> events,
                                     results |-> hl_results,
                                     html |-> html_output])
    /\ gp_k' = gp_k + 1
    /\ md_pc' = "idle"
    /\ UNCHANGED <<events, i, html_output, in_code_block, code_lang, code_content,
                   in_table_head, heading_level, heading_text, heading_inner, hl_calls,
                   hl_results, gp_pc, entries, tz, now, notmdgp>>

CallsNext == CallsSkip \/ CallsBegin \/ MdStep \/ MdReturn \/ CallsPost \/ GpSort

----------------------------------------------------------------------------
(* AdminState, admin_login_submit, admin_logout and is_authenticated *)

MAX_LOGIN_ATTEMPTS == 5

LOCKOUT_DURATION_SECS == 300

SESSION_DURATION_SECS == 3600

\* login requests the server receives
MaxLogins == 6

\* times the clock is advanced between two steps
MaxTicks == 2

\* by how many seconds
Ticks == {1, 299, 3599}

\* the tasks that handle login requests at the same time
Clients == {1, 2}

\* the values Uuid::new_v4 can return
Tokens == {"t1", "t2"}

\* get_client_ip: the first x-forwarded-for value, "unknown" without the header
Ips == {"unknown"}

\* the session= parts of a request's cookie header
Cookies == SUBSET Tokens

EmptyMap == <<>>

Put(map, key, val) == (key :> val) @@ map

Drop(map, keys) == [k \in DOMAIN map \ keys |-> map[k]]

NoReq == [ip |-> "", ok |-> FALSE]

NoAnswer == [cookie |-> {}, result |-> FALSE, turn |-> FALSE]

\* the session check that never looks at the age of the session
is_authenticated_any_age(cookie, table, clock) ==
    \E token \in cookie : token \in DOMAIN table

\* main.rs:1098-1117
is_authenticated(cookie, table, clock) ==
    \E token \in cookie :
        /\ token \in DOMAIN table
        /\ clock - table[token] < SESSION_DURATION_SECS

\* main.rs:1176-1201: the first critical section of admin_login_submit; locked
\* tells whether the handler returns the lock-out page
check_rate_limit(attempts, ip, clock) ==
    IF ip \notin DOMAIN attempts THEN [locked |-> FALSE, attempts |-> attempts]
    ELSE LET data == attempts[ip]
         IN  IF data.locked_until # NoneOpt /\ clock < data.locked_until[1]
             THEN [locked |-> TRUE, attempts |-> attempts]
             ELSE LET d1 == IF data.locked_until # NoneOpt
                            THEN [data EXCEPT !.attempts = 0, !.locked_until = NoneOpt]
                            ELSE data
                      d2 == IF clock - d1.first_attempt > LOCKOUT_DURATION_SECS
                            THEN [d1 EXCEPT !.attempts = 0, !.first_attempt = clock]
                            ELSE d1
                  IN  [locked |-> FALSE, attempts |-> Put(attempts, ip, d2)]

\* main.rs:1231-1242: the critical section that records a failed attempt
record_failure(attempts, ip, clock) ==
    LET data == IF ip \in DOMAIN attempts THEN attempts[ip]
                ELSE [attempts |-> 0, first_attempt |-> clock, locked_until |-> NoneOpt]
        n == data.attempts + 1
    IN  Put(attempts, ip,
            [data EXCEPT !.attempts = n,
                         !.locked_until = IF n >= MAX_LOGIN_ATTEMPTS
                                          THEN Some(clock + LOCKOUT_DURATION_SECS)
                                          ELSE @])

\* AdminState::new (98-113): no session, no recorded attempt
AuthIdle ==
    /\ ad_clock = 0 /\ ad_ticks = 0
    /\ sessions = EmptyMap /\ login_attempts = EmptyMap
    /\ lg_pc = [c \in Clients |-> "idle"]
    /\ lg_req = [c \in Clients |-> NoReq]
    /\ lg_started = 0
    /\ issued = EmptyMap /\ revoked = {}
    /\ auth_result = NoAnswer

\* the logins that will need a token of their own
TokensWanted ==
    Cardinality(DOMAIN issued)
        + Cardinality({c \in Clients : lg_pc[c] # "idle" /\ lg_req[c].ok})

\* admin_login_submit up to the end of its first critical section (1173-1202)
LgCheck(c, ip, ok) ==
    /\ lg_pc[c] = "idle"
    /\ lg_started < MaxLogins
    /\ ok => TokensWanted < Cardinality(Tokens)
    /\ LET r == check_rate_limit(login_attempts, ip, ad_clock)
       IN  /\ login_attempts' = r.attempts
           /\ IF r.locked
              THEN UNCHANGED <<lg_pc, lg_req>>
              ELSE /\ lg_pc' = [lg_pc EXCEPT ![c] = "verify"]
                   /\ lg_req' = [lg_req EXCEPT ![c] = [ip |-> ip, ok |-> ok]]
    /\ lg_started' = lg_started + 1
    /\ UNCHANGED <<ad_clock, ad_ticks, sessions, issued, revoked, auth_result, cmsvars, notad>>

\* main.rs:1205-1243: form.password == ADMIN_PASSWORD, and the critical
\* section the outcome leads to: attempts.remove(&client_ip) for the right
\* password, the record of the failure for a wrong one
LgVerify(c) ==
    /\ lg_pc[c] = "verify"
    /\ IF lg_req[c].ok
       THEN /\ login_attempts' = Drop(login_attempts, {lg_req[c].ip})
            /\ lg_pc' = [lg_pc EXCEPT ![c] = "session"]
            /\ UNCHANGED lg_req
       ELSE /\ login_attempts' = record_failure(login_attempts, lg_req[c].ip, ad_clock)
            /\ lg_pc' = [lg_pc EXCEPT ![c] = "idle"]
            /\ lg_req' = [lg_req EXCEPT ![c] = NoReq]
    /\ UNCHANGED <<ad_clock, ad_ticks, sessions, lg_started,
                   issued, revoked, auth_result, cmsvars, notad>>

\* main.rs:1213-1220: a fresh token, sessions.insert
LgSession(c) ==
    /\ lg_pc[c] = "session"
    /\ \E token \in Tokens \ DOMAIN issued :
        /\ sessions' = Put(sessions, token, ad_clock)
        /\ issued' = Put(issued, token, ad_clock)
    /\ lg_pc' = [lg_pc EXCEPT ![c] = "idle"]
    /\ lg_req' = [lg_req EXCEPT ![c] = NoReq]
    /\ UNCHANGED <<ad_clock, ad_ticks, login_attempts, lg_started,
                   revoked, auth_result, cmsvars, notad>>

\* admin_logout (1256-1277): every session= token of the cookie is removed
AdminLogout(cookie) ==
    /\ cookie # {}
    /\ sessions' = Drop(sessions, cookie)
    /\ revoked' = revoked \cup (cookie \cap DOMAIN issued)
    /\ UNCHANGED <<ad_clock, ad_ticks, login_attempts, lg_pc, lg_req, lg_started,
                   issued, auth_result, cmsvars, notad>>

\* a request to a handler that asks is_authenticated
AuthRequest(cookie) ==
    /\ auth_result' = [cookie |-> cookie,
                       result |-> is_authenticated(cookie, sessions, ad_clock),
                       turn |-> ~auth_result.turn]
    /\ UNCHANGED <<ad_clock, ad_ticks, sessions, login_attempts, lg_pc, lg_req, lg_started,
                   issued, revoked, cmsvars, notad>>

\* time passes
Tick(dt) ==
    /\ ad_ticks < MaxTicks
    /\ ad_clock' = ad_clock + dt
    /\ ad_ticks' = ad_ticks + 1
    /\ UNCHANGED <<sessions, login_attempts, lg_pc, lg_req, lg_started,
                   issued, revoked, auth_result, cmsvars, notad>>

\* concurrent logins with right and wrong passwords
LoginNext ==
    \/ \E c \in Clients, ip \in Ips, ok \in BOOLEAN : LgCheck(c, ip, ok)
    \/ \E c \in Clients : LgVerify(c) \/ LgSession(c)
    \/ \E dt \in Ticks : Tick(dt)

\* the sessions of the admin: logins with the right password, requests with
\* a cookie, logouts
SessionNext ==
    \/ \E c \in Clients, ip \in Ips : LgCheck(c, ip, TRUE)
    \/ \E c \in Clients : LgVerify(c) \/ LgSession(c)
    \/ \E cookie \in Cookies : AdminLogout(cookie) \/ AuthRequest(cookie)
    \/ \E dt \in Ticks : Tick(dt)

----------------------------------------------------------------------------
(* The content directory and the handlers that write it: admin_save_post, *)
(* admin_delete_post, admin_import_repo, admin_sync_repo,                 *)
(* sync_github_repos and github_webhook                                   *)

\* requests the server handles
MaxRequests == 3

MdExt == <<".", "m", "d">>

GithubPrefix == <<"g", "i", "t", "h", "u", "b", "-">>

\* the titles the editor form is filled with
Titles == {<<"A">>, <<"B">>}

\* what fetch_github_repos answers: one repository, pushed on a known day
GithubRepos ==
    {[name |-> <<"R", "e", "p", "o">>, full_name |-> <<"u", "/", "R", "e", "p", "o">>,
      pushed_at |-> Jan02]}

\* the slug field of PostForm: absent, empty (the new-post form), or a file stem
FormSlugs ==
    {NoneOpt, Some(<<>>), Some(<<"a">>), Some(<<"b">>)}
        \cup {Some(GithubPrefix \o to_lowercase(r.name)) : r \in GithubRepos}

\* the slug of the paths /admin/delete/{slug} and /admin/sync/{slug}
PathSlugs ==
    {<<"a">>, <<"b">>}
        \cup {to_lowercase(r.name) : r \in GithubRepos}
        \cup {GithubPrefix \o to_lowercase(r.name) : r \in GithubRepos}

\* the cookie of a request: none, the session of a login, a token of the client's making
RequestCookies == {{}, {"t1"}, {"t2"}}

Quoted(text) == <<"\"">> \o text \o <<"\"">>

\* one line of the front matter the handlers write: key: "value"
FrontLine(key, value) == KeyChars[key] \o <<":", " ">> \o Quoted(value)

\* Local::now().format("%Y-%m-%d")
format_ymd(local) == Pad4(local.y) \o <<"-">> \o Pad2(local.mo) \o <<"-">> \o Pad2(local.d)

\* main.rs:1425-1440: the last value the front matter of an existing document
\* gives a key, None when no line has the key
existing_value(front_matter, key) ==
    LET ls == lines(front_matter)
        has(k) == /\ Len(splitn2(ls[k], ":")) = 2
                  /\ trim(splitn2(ls[k], ":")[1]) = KeyChars[key]
        hits == {k \in 1..Len(ls) : has(k)}
        last == CHOOSE k \in hits : \A j \in hits : j <= k
    IN  IF hits = {} THEN NoneOpt
        ELSE Some(trim_matches(trim(splitn2(ls[last], ":")[2]), {"\""}))

\* main.rs:1421-1446: date, github_repo and website of the document the path names
existing_fields(fs, name) ==
    LET none == [date |-> NoneOpt, github_repo |-> NoneOpt, website |-> NoneOpt]
    IN  IF name \notin DOMAIN fs THEN none
        ELSE LET text == fs[name]
                 rest == SubSeq(text, 4, Len(text))
                 close == FindFrom(rest, Delim, 1)
             IN  IF ~OccursAt(text, Delim, 1) \/ close = 0 THEN none
                 ELSE LET front_matter == SubSeq(rest, 1, close - 1)
                      IN  [date        |-> existing_value(front_matter, "date"),
                           github_repo |-> existing_value(front_matter, "github_repo"),
                           website     |-> existing_value(front_matter, "website")]

\* form.tags.split(',').map(|t| format!("\"{}\"", t.trim())).join(", ")
tags_field(tags) ==
    LET ts == split(tags, ",")
    IN  join([k \in 1..Len(ts) |-> Quoted(trim(ts[k]))], <<",", " ">>)

\* main.rs:1448-1470: the document admin_save_post writes
save_markdown(form, old, zone, clock) ==
    LET date == IF old.date = NoneOpt THEN format_ymd(to_local(zone, clock)) ELSE old.date[1]
        github_repo_line == IF old.github_repo = NoneOpt THEN <<>>
                            ELSE <<"\n">> \o FrontLine("github_repo", old.github_repo[1])
        website_line == IF old.website = NoneOpt THEN <<>>
                        ELSE <<"\n">> \o FrontLine("website", old.website[1])
    IN  Delim \o <<"\n">>
            \o FrontLine("title", form.title) \o <<"\n">>
            \o FrontLine("date", date) \o <<"\n">>
            \o KeyChars.tags \o <<":", " ", "[">> \o tags_field(form.tags) \o <<"]", "\n">>
            \o FrontLine("summary", form.summary)
            \o github_repo_line \o website_line \o <<"\n">>
            \o Delim \o <<"\n", "\n">> \o form.content

\* create_post_from_readme (895-953) for a repository without description,
\* language, topics and homepage
create_post_from_readme(repo, readme_content) ==
    Delim \o <<"\n">>
        \o FrontLine("title", repo.name) \o <<"\n">>
        \o FrontLine("date", repo.pushed_at) \o <<"\n">>
        \o KeyChars.tags \o <<":", " ", "[">>
        \o Quoted(<<"github">>) \o <<",", " ">> \o Quoted(<<"project">>) \o <<"]", "\n">>
        \o FrontLine("summary", <<"A GitHub project">>) \o <<"\n">>
        \o FrontLine("author", SiteAuthor) \o <<"\n">>
        \o FrontLine("keywords", repo.name \o <<",", " github", ",", " open source">>) \o <<"\n">>
        \o FrontLine("github_repo", repo.full_name) \o <<"\n">>
        \o Delim \o <<"\n", "\n">> \o readme_content \o <<"\n">>

\* the README fetch_readme answers
Readme == <<"r", "e", "a", "d", " ", "m", "e">>

\* the fields of the editor form other than title and slug
FormOf(title) ==
    [title |-> title, tags |-> <<"t">>, summary |-> <<"s">>,
     content |-> <<"b", "o", "d", "y">>]

\* main.rs:1408-1417: form.slug, or the slug of the title when the field is absent
slug_of_form(title, slug) ==
    IF slug = NoneOpt THEN save_slug(title) ELSE slug[1]

\* get_posts over the content directory: the Posts of its documents
PostsOf(fs) ==
    LET visited == {visit(<<>>, File(name, RawDoc(fs[name]), Some(now), TRUE), tz, now)
                        : name \in DOMAIN fs}
    IN  {ps[1] : ps \in visited \ {<<>>}}

Request(handler, authed, title, slug, wrote, removed) ==
    [handler |-> handler, authed |-> authed, title |-> title, slug |-> slug,
     wrote |-> wrote, removed |-> removed]

NoRequest == Request("none", FALSE, <<>>, NoneOpt, {}, {})

CmsIdle ==
    /\ files = EmptyMap /\ github_links = EmptyMap /\ ad_last = NoRequest /\ ad_n = 0

AdIdle == AuthIdle /\ CmsIdle

\* the handler's early return: Not authenticated
Refused(handler, title, slug) ==
    /\ ad_last' = Request(handler, FALSE, title, slug, {}, {})
    /\ UNCHANGED <<files, github_links>>

\* the handler returns an error or has nothing to do
NothingDone(handler, authed, title, slug) ==
    /\ ad_last' = Request(handler, authed, title, slug, {}, {})
    /\ UNCHANGED <<files, github_links>>

\* admin_save_post (1399-1478)
AdminSavePost(cookie, title, slug) ==
    /\ ad_n < MaxRequests
    /\ ad_n' = ad_n + 1
    /\ IF ~is_authenticated(cookie, sessions, ad_clock)
       THEN Refused("save", title, slug)
       ELSE LET name == slug_of_form(title, slug) \o MdExt
                doc == save_markdown(FormOf(title), existing_fields(files, name), tz, now)
            IN  /\ files' = Put(files, name, doc)
                /\ ad_last' = Request("save", TRUE, title, slug, {name}, {})
                /\ UNCHANGED github_links
    /\ UNCHANGED <<authvars, notad>>

\* main.rs:1497-1499: links.remove(&slug)
links_after_delete(links, slug) == Drop(links, {slug})

\* admin_delete_post (1481-1508)
AdminDeletePost(cookie, slug) ==
    /\ ad_n < MaxRequests
    /\ ad_n' = ad_n + 1
    /\ IF ~is_authenticated(cookie, sessions, ad_clock)
       THEN Refused("delete", <<>>, Some(slug))
       ELSE LET file_path == slug \o MdExt
                github_file_path == GithubPrefix \o slug \o MdExt
                name == IF file_path \in DOMAIN files THEN file_path ELSE github_file_path
            IN  IF name \notin DOMAIN files
                THEN NothingDone("delete", TRUE, <<>>, Some(slug))
                ELSE /\ files' = Drop(files, {name})
                     /\ github_links' = links_after_delete(github_links, slug)
                     /\ ad_last' = Request("delete", TRUE, <<>>, Some(slug), {}, {name})
    /\ UNCHANGED <<authvars, notad>>

\* admin_import_repo (1551-1604); fetched tells whether GitHub answered
AdminImportRepo(cookie, repo, auto_sync, fetched) ==
    /\ ad_n < MaxRequests
    /\ ad_n' = ad_n + 1
    /\ IF ~is_authenticated(cookie, sessions, ad_clock)
       THEN Refused("import", repo.name, NoneOpt)
       ELSE IF ~fetched THEN NothingDone("import", TRUE, repo.name, NoneOpt)
       ELSE LET slug == GithubPrefix \o to_lowercase(repo.name)
                name == slug \o MdExt
            IN  /\ files' = Put(files, name, create_post_from_readme(repo, Readme))
                /\ github_links' = Put(github_links, slug,
                                       [repo_name |-> repo.name, auto_sync |-> auto_sync])
                /\ ad_last' = Request("import", TRUE, repo.name, Some(slug), {name}, {})
    /\ UNCHANGED <<authvars, notad>>

\* admin_sync_repo (1607-1661)
AdminSyncRepo(cookie, slug, fetched) ==
    /\ ad_n < MaxRequests
    /\ ad_n' = ad_n + 1
    /\ IF ~is_authenticated(cookie, sessions, ad_clock)
       THEN Refused("sync", <<>>, Some(slug))
       ELSE LET found == IF slug \in DOMAIN github_links
                         THEN {r \in GithubRepos : r.name = github_links[slug].repo_name}
                         ELSE {}
            IN  IF ~fetched \/ found = {}
                THEN NothingDone("sync", TRUE, <<>>, Some(slug))
                ELSE \E repo \in found :
                        /\ files' = Put(files, slug \o MdExt,
                                        create_post_from_readme(repo, Readme))
                        /\ ad_last' = Request("sync", TRUE, <<>>, Some(slug),
                                              {slug \o MdExt}, {})
                        /\ UNCHANGED github_links
    /\ UNCHANGED <<authvars, notad>>

\* repo.name.to_lowercase().replace(' ', "-")
sync_file_name(repo) ==
    LET lowered == to_lowercase(repo.name)
    IN  GithubPrefix
            \o [k \in 1..Len(lowered) |-> IF lowered[k] = " " THEN "-" ELSE lowered[k]]
            \o MdExt

\* sync_github_repos (956-1023), the handler of GET /api/github/sync
SyncGithubRepos(fetched) ==
    /\ ad_n < MaxRequests
    /\ ad_n' = ad_n + 1
    /\ IF ~fetched THEN NothingDone("sync_all", FALSE, <<>>, NoneOpt)
       ELSE /\ files' = [name \in DOMAIN files \cup {sync_file_name(r) : r \in GithubRepos} |->
                            IF \E r \in GithubRepos : sync_file_name(r) = name
                            THEN create_post_from_readme(
                                     CHOOSE r \in GithubRepos : sync_file_name(r) = name, Readme)
                            ELSE files[name]]
            /\ ad_last' = Request("sync_all", FALSE, <<>>, NoneOpt,
                                  {sync_file_name(r) : r \in GithubRepos}, {})
            /\ UNCHANGED github_links
    /\ UNCHANGED <<authvars, notad>>

\* github_webhook (1664-1731), the handler of POST /api/webhook/github
GithubWebhook(is_main_push, repo, fetched) ==
    /\ ad_n < MaxRequests
    /\ ad_n' = ad_n + 1
    /\ LET linked == {s \in DOMAIN github_links :
                        github_links[s].repo_name = repo.name /\ github_links[s].auto_sync}
       IN  IF ~is_main_push \/ linked = {} \/ ~fetched
           THEN NothingDone("webhook", FALSE, repo.name, NoneOpt)
           ELSE \E slug \in linked :
                   /\ files' = Put(files, slug \o MdExt, create_post_from_readme(repo, Readme))
                   /\ ad_last' = Request("webhook", FALSE, repo.name, Some(slug),
                                         {slug \o MdExt}, {})
                   /\ UNCHANGED github_links
    /\ UNCHANGED <<authvars, notad>>

\* the server with or without a session of the admin: AdminState::new and,
\* in the one, a login that was answered with the token t1
CmsInit ==
    /\ ad_clock = 0 /\ ad_ticks = 0
    /\ sessions \in {EmptyMap, ("t1" :> 0)}
    /\ issued = sessions
    /\ login_attempts = EmptyMap
    /\ lg_pc = [c \in Clients |-> "idle"]
    /\ lg_req = [c \in Clients |-> NoReq]
    /\ lg_started = 0
    /\ revoked = {}
    /\ auth_result = NoAnswer
    /\ CmsIdle

CmsNext ==
    \/ \E cookie \in RequestCookies, title \in Titles, slug \in FormSlugs :
            AdminSavePost(cookie, title, slug)
    \/ \E cookie \in RequestCookies, slug \in PathSlugs : AdminDeletePost(cookie, slug)
    \/ \E cookie \in RequestCookies, repo \in GithubRepos, auto_sync, fetched \in BOOLEAN :
            AdminImportRepo(cookie, repo, auto_sync, fetched)
    \/ \E cookie \in RequestCookies, slug \in PathSlugs, fetched \in BOOLEAN :
            AdminSyncRepo(cookie, slug, fetched)
    \/ \E fetched \in BOOLEAN : SyncGithubRepos(fetched)
    \/ \E is_main_push, fetched \in BOOLEAN, repo \in GithubRepos :
            GithubWebhook(is_main_push, repo, fetched)

----------------------------------------------------------------------------
(* Specifications: one per component, the other components idle *)

InitSlug == SlugInit /\ MetaIdle /\ MdIdle /\ RtIdle /\ GpIdle /\ HlIdle /\ AdIdle

SpecSlug == InitSlug /\ [][SlugNext]_vars

InitMeta == MetaInit /\ SlugIdle /\ MdIdle /\ RtIdle /\ GpIdle /\ HlIdle /\ AdIdle

SpecMeta == InitMeta /\ [][MetaNext]_vars

InitMd == MdInit /\ SlugIdle /\ MetaIdle /\ RtIdle /\ GpIdle /\ HlIdle /\ AdIdle

SpecMd == InitMd /\ [][MdNext]_vars

InitRt == RtInit /\ SlugIdle /\ MetaIdle /\ MdIdle /\ GpIdle /\ HlIdle /\ AdIdle

SpecRt == InitRt /\ [][RtNext]_vars

InitPosts == GpInit /\ SlugIdle /\ MetaIdle /\ MdIdle /\ RtIdle /\ HlIdle /\ AdIdle

SpecPosts == InitPosts /\ [][GpNext]_vars

InitHl == HlInit /\ SlugIdle /\ MetaIdle /\ MdIdle /\ RtIdle /\ GpIdle /\ AdIdle

SpecHl == InitHl /\ [][HlNext]_vars

InitCalls == CallsInit /\ SlugIdle /\ MetaIdle /\ MdIdle /\ RtIdle /\ HlIdle /\ AdIdle

SpecCalls == InitCalls /\ [][CallsNext]_vars

InitLogin == AuthIdle /\ CmsIdle /\ SlugIdle /\ MetaIdle /\ MdIdle /\ RtIdle /\ GpIdle /\ HlIdle

SpecLogin == InitLogin /\ [][LoginNext]_vars

InitSession == AuthIdle /\ CmsIdle /\ SlugIdle /\ MetaIdle /\ MdIdle /\ RtIdle /\ GpIdle /\ HlIdle

SpecSession == InitSession /\ [][SessionNext]_vars

InitAdmin == CmsInit /\ SlugIdle /\ MetaIdle /\ MdIdle /\ RtIdle /\ GpIdle /\ HlIdle

SpecAdmin == InitAdmin /\ [][CmsNext]_vars

----------------------------------------------------------------------------
(* Claims *)

\* event k lies in a heading that event s opened
HeadingOpen(s, k) ==
    /\ s < k
    /\ events[s].kind = "HeadingStart"
    /\ \A m \in (s + 1)..(k - 1) : events[m].kind \notin {"HeadingStart", "HeadingEnd"}

InHeadingAt(k) == \E s \in 1..(k - 1) : HeadingOpen(s, k)

\* what an event of a heading adds to the text the anchor is made from
PlainOf(e) ==
    CASE e.kind \in {"Text", "Code"} -> e.text
      [] e.kind \in {"SoftBreak", "HardBreak"} -> <<" ">>
      [] OTHER -> <<>>

\* the element of the heading opened by event s and closed by event k
ExpectedHeading(s, k) ==
    LET L == LevelStr(events[s].level)
        plain == Concat([m \in 1..(k - s - 1) |-> PlainOf(events[s + m])])
        inner == Concat([m \in 1..(k - s - 1) |-> push_html(events[s + m])])
    IN  <<"<h", L, " id=\"">> \o slugify(plain) \o <<"\">">> \o inner \o <<"</h", L, ">">>

C1_Step ==
    (md_pc = "run" /\ i < Len(events)) =>
        LET k == i + 1
        IN  IF InHeadingAt(k)
            THEN IF events[k].kind = "HeadingEnd"
                 THEN /\ html_output' = html_output
                            \o ExpectedHeading(CHOOSE s \in 1..(k - 1) : HeadingOpen(s, k), k)
                      /\ heading_text' = <<>>
                      /\ heading_inner' = <<>>
                 ELSE html_output' = html_output
            ELSE events[k].kind = "HeadingStart" => html_output' = html_output

HelloWorldHtml ==
    <<"<h", "2", " id=\"", "h","e","l","l","o","-","w","o","r","l","d", "\">">>
        \o HelloWorld \o <<"</h", "2", ">">>

C1_Example ==
    (md_pc = "done" /\ events = Heading(2, <<Text(HelloWorld)>>))
        => html_output = HelloWorldHtml

\* C1: the events of a heading write nothing to the output until heading-end,
\* which appends exactly <h{level} id="{s}">{inner}</h{level}>: level from the
\* heading-start, s the slugify of the text and inline-code contents with one
\* space per soft or hard break, inner the default rendering of every event
\* between start and end; both accumulators are empty afterwards.
\* `## Hello, World!` gives <h2 id="hello-world">Hello, World!</h2>.
C1_HeadingAnchor ==
    [][C1_Step]_vars /\ []C1_Example

\* a heading with inline code and one with a break were flushed, in one body
C1_Witness ==
    /\ md_pc = "done"
    /\ events = Heading(1, <<Text(<<"A", " ">>), Code(<<"b", "<", "c">>)>>)
                \o Heading(6, <<Text(<<"a">>), Ev("HardBreak"), Text(<<"b">>)>>)
    /\ html_output =
        <<"<h", "1", " id=\"", "a", "-", "b", "-", "c", "\">", "A", " ", "<code>",
          "b", "&lt;", "c", "</code>", "</h", "1", ">",
          "<h", "6", " id=\"", "a", "-", "b", "\">", "a", "<br />", "\n", "b",
          "</h", "6", ">">>

\* event k lies in a code block that event s opened
CodeOpen(s, k) ==
    /\ s < k
    /\ events[s].kind = "CodeBlockStart"
    /\ \A m \in (s + 1)..(k - 1) : events[m].kind \notin {"CodeBlockStart", "CodeBlockEnd"}

InCodeAt(k) == \E s \in 1..(k - 1) : CodeOpen(s, k)

\* the text events between s and k, concatenated as they are
RawTextBetween(s, k) ==
    Concat([m \in 1..(k - s - 1) |->
               IF events[s + m].kind = "Text" THEN events[s + m].text ELSE <<>>])

C2_Step ==
    (md_pc = "run" /\ i < Len(events)) =>
        LET k == i + 1
            e == events[k]
        IN  CASE e.kind = "CodeBlockStart" \/ (InCodeAt(k) /\ e.kind = "Text") ->
                    html_output' = html_output /\ hl_calls' = hl_calls
              [] InCodeAt(k) /\ e.kind = "CodeBlockEnd" ->
                    LET s == CHOOSE s \in 1..(k - 1) : CodeOpen(s, k)
                        code == RawTextBetween(s, k)
                        lang == IF events[s].fenced THEN events[s].lang ELSE <<>>
                    IN  /\ hl_calls' = Append(hl_calls, [code |-> code, lang |-> lang])
                        /\ \E ok \in BOOLEAN :
                              html_output' = html_output \o highlight_code(code, lang, ok)
              [] OTHER -> hl_calls' = hl_calls

\* C2: highlight_code is called once per code block, at code-block-end, with
\* the unescaped concatenation of the text events since that block's start
\* (none of an earlier block) and the language captured at the start (empty
\* for an indented block); its result is appended to the output and the block
\* writes nothing else.
C2_HighlightOncePerBlock ==
    [][C2_Step]_vars

\* two code blocks were rendered: a fenced one of two text events, then an
\* indented one
C2_Witness ==
    /\ md_pc = "done"
    /\ hl_calls = <<[code |-> <<"x", "\n", "y", "\n">>, lang |-> <<"p", "y">>],
                    [code |-> <<"i", "\n">>, lang |-> <<>>]>>


\* C4: slugify is idempotent: applying the derivation (the heading-anchor
\* closure, or the post-slug derivation) to its own result returns that result
\* unchanged.
C4_SlugifyIdempotent ==
    sl_pc = "twice" => sl_out = sl_text

\* a slug of two words (from a text such as "A!!b") was slugified again by
\* the heading closure
C4_Witness ==
    /\ sl_pc = "twice"
    /\ sl_fn = "heading"
    /\ sl_out = <<"a", "-", "b">>

\* the positions of the front-matter delimiter in the document
DelimAt(k) ==
    /\ k + 2 <= Len(content)
    /\ content[k] = "-" /\ content[k + 1] = "-" /\ content[k + 2] = "-"

DelimPositions == {k \in 1..Len(content) : DelimAt(k)}

\* two occurrences that do not overlap
TwoDelims == \E p, q \in DelimPositions : p + 3 <= q

\* where the third segment starts: after the first occurrence that begins at
\* or after the end of the first occurrence of all
BodyStart ==
    LET first == CHOOSE p \in DelimPositions : \A m \in DelimPositions : p <= m
        after == {q \in DelimPositions : first + 3 <= q}
    IN  (CHOOSE q \in after : \A m \in after : q <= m) + 3

\* C6: parse_metadata returns None exactly when the document holds fewer than
\* two (non-overlapping) occurrences of "---"; otherwise it reads every line
\* of the middle segment, returns a Metadata value whatever that segment
\* contains, and the body get_posts takes is the whole remainder after the
\* second occurrence, later occurrences of "---" included.
C6_NoMetadataIffFewerThanThreeSegments ==
    /\ pm_pc = "rejected" => ~TwoDelims /\ pm_ret = NoneOpt
    /\ pm_pc \in {"lines", "returned", "body"} => TwoDelims
    /\ pm_pc = "lines" => pm_i <= Len(lines(parts[2]))
    /\ pm_pc \in {"returned", "body"} => pm_ret = Some(meta)
    /\ pm_pc = "body" => content_str = SubSeq(content, BodyStart, Len(content))

\* a document with three delimiters was parsed and its body keeps the third
C6_Witness ==
    /\ pm_pc = "body"
    /\ \E k \in 1..Len(content_str) : OccursAt(content_str, Delim, k)
    /\ Len(content_str) < Len(content) - 6

\* the words of a tags value, the empty ones dropped
RECURSIVE WordsOf(_)
WordsOf(elems) ==
    IF elems = <<>> THEN <<>>
    ELSE (IF Head(elems).word = <<>> THEN <<>> ELSE <<Head(elems).word>>)
         \o WordsOf(Tail(elems))

\* C7: a tags value written as a bracketed list or as a bare comma-separated
\* string of elements (each a word, optionally quoted with single or double
\* quotes, optionally padded with spaces) parses to the words in source order,
\* without padding and quotes, the empty elements dropped.
C7_TagsRoundTrip ==
    (pm_in.kind = "tags" /\ pm_pc \in {"returned", "body"})
        => pm_ret[1].tags = WordsOf(pm_in.elems)

\* tags: [rust, web, "axum blog"] was parsed to rust, web, axum blog
C7_Witness ==
    /\ pm_pc = "returned"
    /\ pm_in = TagsExample
    /\ pm_ret[1].tags = <<<<"r","u","s","t">>, <<"w","e","b">>,
                          <<"a","x","u","m"," ","b","l","o","g">>>>

\* the line the loop of parse_metadata reads next
CurLine == lines(parts[2])[pm_i + 1]

HasColon(line) == \E k \in 1..Len(line) : line[k] = ":"

\* the text before the first colon, without surrounding whitespace
KeyOfLine(line) ==
    LET c == CHOOSE k \in 1..Len(line) : line[k] = ":" /\ \A m \in 1..(k - 1) : line[m] # ":"
    IN  trim(SubSeq(line, 1, c - 1))

RecognizedKeyTexts == {KeyChars[k] : k \in RecognizedKeys}

\* the keys that set a field
KeysOfField(f) == IF f = "website" THEN {"website", "homepage"} ELSE {f}

\* the keys the lines of the metadata block name
NamedKeys ==
    LET ls == lines(parts[2])
    IN  {KeyOfLine(ls[k]) : k \in {n \in 1..Len(ls) : HasColon(ls[n])}}

C8_Frame ==
    (pm_pc = "lines" /\ pm_i < Len(lines(parts[2]))
        /\ (~HasColon(CurLine) \/ KeyOfLine(CurLine) \notin RecognizedKeyTexts))
    => meta' = meta

C8_Defaults ==
    pm_pc \in {"returned", "body"} =>
        LET named == NamedKeys
        IN  \A f \in DOMAIN MetadataDefault :
                ({KeyChars[x] : x \in KeysOfField(f)} \cap named = {})
                    => pm_ret[1][f] = MetadataDefault[f]

----------------------------------------------------------------------------
(* Reading time *)

\* C3: for every body, calculate_reading_time returns word_count = the number
\* of whitespace-delimited words of the body and reading_time = the floor of
\* word_count / 200, raised to 1 when that is 0; so reading_time >= 1 for every
\* body, the empty one included, and the Post carries these two values.
C3_ReadingTime ==
    /\ rt_pc \in {"computed", "stored", "padded"} =>
           /\ word_count = rt_in.n
           /\ reading_time >= 1
           /\ (word_count < 200 => reading_time = 1)
           /\ (word_count >= 200 =>
                  /\ 200 * reading_time <= word_count
                  /\ word_count < 200 * (reading_time + 1))
    /\ rt_pc \in {"stored", "padded"} =>
           /\ rt_post.word_count = rt_in.n
           /\ rt_post.reading_time = reading_time
           /\ rt_post.reading_time >= 1

\* the empty body has been measured and stored: no words, one minute
C3_Witness ==
    /\ rt_pc = "stored"
    /\ RtBody(rt_in) = <<>>
    /\ rt_post = [reading_time |-> 1, word_count |-> 0]

----------------------------------------------------------------------------
(* The collection get_posts builds *)

IsLowerAlnum(c) == is_alphanumeric(c) /\ c \notin UpperChars \cup {IDot}

\* the lower-cased title, its non-alphanumeric characters as separators, the
\* words joined by one "-": a "-" is written before a word that is not the first
ExpectedSlug(title) ==
    LET low == to_lowercase(title)
    IN  Concat([k \in 1..Len(low) |->
            IF ~is_alphanumeric(low[k]) THEN <<>>
            ELSE IF /\ k > 1
                    /\ ~is_alphanumeric(low[k - 1])
                    /\ \E j \in 1..(k - 1) : is_alphanumeric(low[j])
                 THEN <<"-", low[k]>>
                 ELSE <<low[k]>>])

SlugShape(slug) ==
    /\ \A k \in 1..Len(slug) : slug[k] = "-" \/ IsLowerAlnum(slug[k])
    /\ slug # <<>> => slug[1] # "-" /\ slug[Len(slug)] # "-"
    /\ \A k \in 1..(Len(slug) - 1) : ~(slug[k] = "-" /\ slug[k + 1] = "-")

\* a document with a metadata block: two delimiters that do not overlap
FrontMatterParses(text) ==
    \E p \in 1..Len(text) :
        /\ OccursAt(text, Delim, p)
        /\ \E q \in (p + 3)..Len(text) : OccursAt(text, Delim, q)

HasMdName(name) ==
    /\ Len(name) > 3
    /\ SubSeq(name, Len(name) - 2, Len(name)) = <<".", "m", "d">>

\* an enumerated .md document whose front matter parses
Accepted(file) ==
    /\ HasMdName(file.name)
    /\ file.readable
    /\ FrontMatterParses(DocOf(file.doc))

PostsOfFile(name) == {j \in 1..Len(posts) : posts[j].filename = name}

AcceptedSoFar == {k \in 1..gp_k : Accepted(entries[k])}

\* C5: the slug of a Post depends on its title alone and is the lower-cased
\* title with every non-alphanumeric character acting as a separator and the
\* words joined by one "-": only lower-cased alphanumerics and "-", no "-" at
\* either end, no "--".  Documents whose titles give the same slug all stay in
\* the collection, each with that slug.
C5_SlugFromTitle ==
    /\ \A j \in 1..Len(posts) :
           /\ posts[j].slug = ExpectedSlug(posts[j].title)
           /\ SlugShape(posts[j].slug)
    /\ \A j, k \in 1..Len(posts) :
           posts[j].title = posts[k].title => posts[j].slug = posts[k].slug
    /\ gp_pc = "done" =>
           \A p, q \in AcceptedSoFar :
               p # q =>
                   \E j, k \in 1..Len(posts) :
                       /\ j # k
                       /\ posts[j].filename = entries[p].name
                       /\ posts[k].filename = entries[q].name

\* "Hello, World!" and "hello world" are both in the collection as hello-world
C5_Witness ==
    /\ gp_pc = "done"
    /\ Len(posts) = 2
    /\ posts[1].title = HelloWorldTitle
    /\ posts[2].title = <<"h","e","l","l","o"," ","w","o","r","l","d">>
    /\ posts[1].slug = <<"h","e","l","l","o","-","w","o","r","l","d">>
    /\ posts[2].slug = posts[1].slug

\* the Post get_posts builds of a file when it is the only one
PostAlone(file) == visit(<<>>, file, tz, now)[1]

\* C9: get_posts returns exactly one Post for each enumerated .md document
\* whose front matter parses and none for any other; a rejected document does
\* not stop the loop and does not change the Post of another document.
C9_OnePostPerParseableDocument ==
    /\ gp_pc = "loop" => gp_k <= Len(entries)
    /\ gp_pc = "done" => gp_k = Len(entries)
    /\ \A k \in 1..gp_k :
           Cardinality(PostsOfFile(entries[k].name))
               = IF Accepted(entries[k]) THEN 1 ELSE 0
    /\ Len(posts) = Cardinality(AcceptedSoFar)
    /\ gp_pc = "done" =>
           \A k \in AcceptedSoFar :
               \E j \in 1..Len(posts) : posts[j] = PostAlone(entries[k])

\* a document without front matter was met first, the one after it got its Post
C9_Witness ==
    /\ gp_pc = "done"
    /\ Len(entries) = 2
    /\ HasMdName(entries[1].name)
    /\ ~FrontMatterParses(DocOf(entries[1].doc))
    /\ Accepted(entries[2])
    /\ Len(posts) = 1
    /\ posts[1].filename = entries[2].name
    /\ posts[1].title = HelloWorldTitle

IsoStartsWith(p, day) == SubSeq(p.date_iso, 1, 11) = day \o <<"T">>

CountIn(ps, x) == Cardinality({j \in 1..Len(ps) : ps[j] = x})

\* descending: no post is followed by one of a greater date_iso
C10_Descending ==
    \A p, q \in 1..Len(posts) :
        p < q => ~str_less(posts[p].date_iso, posts[q].date_iso)

C10_Example ==
    \A p, q \in 1..Len(posts) :
        IsoStartsWith(posts[p], Jan02) /\ IsoStartsWith(posts[q], Jan01) => p < q

\* the sort keeps every post, as many times as it was there
C10_SortStep ==
    gp_pc = "loop" /\ gp_pc' = "done" =>
        /\ Len(posts') = Len(posts)
        /\ \A j \in 1..Len(posts) : CountIn(posts', posts[j]) = CountIn(posts, posts[j])

\* C10: the list get_posts returns is ordered by date_iso descending in string
\* order, so a post of 2024-01-02T... comes before one of 2024-01-01T..., and
\* it is a permutation of the Posts built.
C10_SortedByDateIsoDescending ==
    /\ [][C10_SortStep]_vars
    /\ [](gp_pc = "done" => C10_Descending /\ C10_Example)

\* the older post was built first and the sort moved the newer one before it
C10_Witness ==
    /\ gp_pc = "done"
    /\ Len(posts) = 2
    /\ IsoStartsWith(posts[1], Jan02)
    /\ IsoStartsWith(posts[2], Jan01)
    /\ posts[1].filename = entries[2].name
    /\ posts[2].filename = entries[1].name

----------------------------------------------------------------------------
(* Dates of the Posts *)

\* the value the author wrote for a key of the metadata block: that of the
\* last line naming it, empty when no line does
AuthorValue(doc, key) ==
    IF doc.kind # "lines" THEN <<>>
    ELSE LET named == {n \in 1..Len(doc.items) :
                          doc.items[n].key = key /\ doc.items[n].colon}
         IN  IF named = {} THEN <<>>
             ELSE doc.items[CHOOSE n \in named : \A o \in named : o <= n].val

\* YYYY-MM-DD naming a day of the calendar
ValidYmd(text) ==
    /\ Len(text) = 10
    /\ text[5] = "-" /\ text[8] = "-"
    /\ \A k \in {1, 2, 3, 4, 6, 7, 9, 10} : text[k] \in DigitChars
    /\ Num(SubSeq(text, 6, 7)) \in 1..12
    /\ Num(SubSeq(text, 9, 10)) \in 1..DaysIn(Num(SubSeq(text, 1, 4)), Num(SubSeq(text, 6, 7)))

\* the instant that stands in for a date that cannot be read
Substituted(file) == IF file.mtime # NoneOpt THEN file.mtime[1] ELSE now

\* the display date and the date_iso of a Post name the same day
SameDay(p) ==
    /\ Len(p.date) = 10 /\ Len(p.date_iso) = 24
    /\ SubSeq(p.date, 7, 10) = SubSeq(p.date_iso, 1, 4)
    /\ p.date[1] = MonthNames[Num(SubSeq(p.date_iso, 6, 7))]
    /\ SubSeq(p.date, 3, 4) = SubSeq(p.date_iso, 9, 10)

\* C11: when the date the author wrote is not a valid YYYY-MM-DD calendar date
\* (2024-13-40, or no date at all) the Post is still built, and its display
\* date and its date_iso both come from one substituted instant: the file's
\* last-modified time, or the current time when the file has none.
C11_InvalidDateFallsBack ==
    \A k \in AcceptedSoFar :
        ~ValidYmd(AuthorValue(entries[k].doc, "date")) =>
            \E j \in 1..Len(posts) :
                /\ posts[j].filename = entries[k].name
                /\ posts[j].date = format_display(to_local(tz, Substituted(entries[k])))
                /\ posts[j].date_iso = format_iso(to_local(tz, Substituted(entries[k])))
                /\ SameDay(posts[j])

\* date: "2024-13-40" in a file last modified 2024-03-05 10:00 UTC, in Berlin
C11_Witness ==
    /\ gp_pc = "done"
    /\ tz.name = "Europe/Berlin"
    /\ \E k \in 1..Len(entries), j \in 1..Len(posts) :
           /\ AuthorValue(entries[k].doc, "date") = BadDate
           /\ entries[k].mtime = Some(Instant(2024, 3, 5, 10))
           /\ posts[j].filename = entries[k].name
           /\ posts[j].date = <<"March", " ", "0", "5", ",", " ", "2", "0", "2", "4">>
           /\ posts[j].date_iso = <<"2","0","2","4","-","0","3","-","0","5","T",
                                    "1","1",":","0","0",":","0","0","+","0","1","0","0">>

----------------------------------------------------------------------------
(* Summary and canonical URL of the Posts *)

\* the raw body of a document written from lines: what follows the second fence
RawBody(doc) == <<"\n">> \o doc.body

\* the Post built of the entry at position k
PostOfEntry(k) ==
    posts[CHOOSE j \in 1..Len(posts) : posts[j].filename = entries[k].name]

\* C12: the summary of a Post is the summary of the metadata when that is not
\* empty; otherwise the first 160 characters of the raw body followed by "...",
\* which for a raw body of more than 160 characters is 163 characters long.
C12_Summary ==
    \A k \in AcceptedSoFar :
        LET sv == AuthorValue(entries[k].doc, "summary")
            raw == RawBody(entries[k].doc)
            sm == PostOfEntry(k).summary
        IN  /\ sv # <<>> => sm = sv
            /\ sv = <<>> /\ Len(raw) <= 160 => sm = raw \o <<".", ".", ".">>
            /\ sv = <<>> /\ Len(raw) > 160 =>
                   /\ Len(sm) = 163
                   /\ \A n \in 1..160 : sm[n] = raw[n]
                   /\ SubSeq(sm, 161, 163) = <<".", ".", ".">>

\* a document without summary and with a body of more than 160 characters,
\* and one that has a summary, are both in the collection
C12_Witness ==
    /\ gp_pc = "done"
    /\ Len(entries) = 2 /\ Len(posts) = 2
    /\ AuthorValue(entries[1].doc, "summary") = <<>>
    /\ Len(RawBody(entries[1].doc)) > 160
    /\ Len(PostOfEntry(1).summary) = 163
    /\ AuthorValue(entries[2].doc, "summary") = <<"A"," ","s","u","m",".">>
    /\ PostOfEntry(2).summary = <<"A"," ","s","u","m",".">>

----------------------------------------------------------------------------
(* The syntax highlighter adapter *)

\* the text with &, < and > written as entities
EscapedText(t) ==
    [k \in 1..Len(t) |->
        CASE t[k] = "<" -> "&lt;"
          [] t[k] = ">" -> "&gt;"
          [] t[k] = "&" -> "&amp;"
          [] OTHER      -> t[k]]

PythonHint == <<"p","y","t","h","o","n">>

\* <pre{attrs}><code class="language-{hint}">{escaped code}</code></pre>
FallbackFragment(attrs, hint, code) ==
    <<"<pre">> \o attrs \o <<"><code class=\"language-">> \o hint \o <<"\">">>
        \o EscapedText(code) \o <<"</code>", "</pre>">>

PreAttrs == <<" class=\"bg-gray-900 text-gray-100 p-4 rounded-lg overflow-x-auto my-4\"">>

\* C13 as stated: when the rendering fails, highlight_code returns
\* <pre><code class="language-{hint}">{escaped code}</code></pre>, the pre
\* element without attributes.
C13_Original ==
    hl_pc = "done" /\ ~hl_ok =>
        hl_out = FallbackFragment(<<>>, hl_lang, hl_code)

\* C13 (amended): when the rendering fails, highlight_code returns the fallback
\* fragment <pre class="bg-gray-900 text-gray-100 p-4 rounded-lg overflow-x-auto
\* my-4"><code class="language-{hint}">{escaped code}</code></pre>: the raw hint
\* as the CSS class of the code element, the code with &, < and > escaped; for
\* hint python and code print(1) the code element is
\* <code class="language-python">print(1)</code>.
C13_FallbackFragment ==
    hl_pc = "done" /\ ~hl_ok =>
        /\ hl_out = FallbackFragment(PreAttrs, hl_lang, hl_code)
        /\ \A k \in 1..Len(hl_out) : hl_out[k] \notin {"<", ">"}
        /\ (hl_lang = PythonHint /\ hl_code = PrintOne =>
               hl_out = <<"<pre", PreAttrs[1], "><code class=\"language-",
                          "p","y","t","h","o","n", "\">",
                          "p","r","i","n","t","(","1",")", "</code>", "</pre>">>)

\* the rendering of a<b with hint python failed
C13_Witness ==
    /\ hl_pc = "done" /\ ~hl_ok
    /\ hl_lang = PythonHint
    /\ hl_code = <<"a", "<", "b">>
    /\ hl_out = <<"<pre", PreAttrs[1], "><code class=\"language-",
                  "p","y","t","h","o","n", "\">", "a", "&lt;", "b", "</code>", "</pre>">>


SyntaxNames == {SyntaxSet[n].name : n \in 1..Len(SyntaxSet)}

ByExtension(lang) == {n \in 1..Len(SyntaxSet) : lang \in SyntaxSet[n].exts}

ByName(lang) == {n \in 1..Len(SyntaxSet) : eq_ignore_ascii_case(SyntaxSet[n].name, lang)}

ByExactName(lang) == {n \in 1..Len(SyntaxSet) : SyntaxSet[n].name = lang}

NameOfLast(S) == SyntaxSet[CHOOSE n \in S : \A o \in S : o <= n].name

PlainTextName == <<"P","l","a","i","n"," ","T","e","x","t">>

\* the output is one of the two fragments highlight_code writes
IsFragment(out) ==
    /\ out # <<>>
    /\ \/ out[1] = "<pre" /\ out[Len(out)] = "</pre>"
       \/ /\ out[1] = "<div class=\"code-block\"><div class=\"code-header\"><span class=\"code-lang\">"
          /\ out[Len(out)] = "</div></div>"

\* C14 as stated: the grammar is the one whose name is exactly the hint, else
\* the one with the hint as a file extension, else the plain-text grammar.
C14_Original ==
    hl_pc \in {"found", "done"} =>
        hl_syntax = IF ByExactName(hl_lang) # {} THEN NameOfLast(ByExactName(hl_lang))
                    ELSE IF ByExtension(hl_lang) # {} THEN NameOfLast(ByExtension(hl_lang))
                    ELSE PlainTextName

\* C14 (amended): highlight_code returns an HTML fragment for every code text
\* and every language hint and has no error outcome: the grammar is resolved in
\* the order file-extension match, then grammar-name match whatever the case,
\* then the plain-text grammar, so an unknown or empty hint is not an error,
\* and a rendering failure yields the escaped fallback.
C14_AlwaysAFragment ==
    /\ hl_pc \in {"found", "done"} =>
           /\ hl_syntax \in SyntaxNames
           /\ hl_syntax = IF ByExtension(hl_lang) # {} THEN NameOfLast(ByExtension(hl_lang))
                          ELSE IF ByName(hl_lang) # {} THEN NameOfLast(ByName(hl_lang))
                          ELSE PlainTextName
    /\ hl_pc = "done" =>
           /\ IsFragment(hl_out)
           /\ ~hl_ok => hl_out = FallbackFragment(PreAttrs, hl_lang, hl_code)

\* an unknown hint and markup characters in the code: the plain-text grammar,
\* and a fragment comes back
C14_Witness ==
    /\ hl_pc = "done" /\ hl_ok
    /\ hl_lang = <<"z", "z">>
    /\ hl_code = <<"<", "&", ">">>
    /\ hl_syntax = PlainTextName
    /\ IsFragment(hl_out)

----------------------------------------------------------------------------
(* Reading time and trailing whitespace *)

\* C15: trailing whitespace does not change the word count: for every body B,
\* calculate_reading_time(B followed by one space) returns the word_count and
\* the reading_time of calculate_reading_time(B).
C15_TrailingSpace ==
    rt_pc = "padded" =>
        /\ rt_padded[2] = word_count
        /\ rt_padded[1] = reading_time

\* 400 words ending in a word: two minutes with and without the space
C15_Witness ==
    /\ rt_pc = "padded"
    /\ rt_in.n = 400 /\ ~rt_in.trail
    /\ rt_padded = <<2, 400>>
    /\ word_count = 400 /\ reading_time = 2


\* some line of the metadata block of the document names the key
HasKey(doc, key) ==
    /\ doc.kind = "lines"
    /\ \E n \in 1..Len(doc.items) : doc.items[n].key = key /\ doc.items[n].colon

EndsWith(text, suffix) ==
    /\ Len(suffix) <= Len(text)
    /\ SubSeq(text, Len(text) - Len(suffix) + 1, Len(text)) = suffix

\* C16: the canonical URL of a Post is the canonical value of the metadata
\* when the front matter has a canonical key, and otherwise
\* {site_url}/blog/{slug} with the slug of that same Post, so it ends with the
\* Post's own slug.
C16_Canonical ==
    \A k \in AcceptedSoFar :
        LET p == PostOfEntry(k)
        IN  IF HasKey(entries[k].doc, "canonical")
            THEN p.canonical = AuthorValue(entries[k].doc, "canonical")
            ELSE /\ p.canonical = <<"http://localhost:8080", "/blog/">> \o p.slug
                 /\ EndsWith(p.canonical, p.slug)

\* one Post with the canonical URL of its front matter, one with the default
C16_Witness ==
    /\ gp_pc = "done"
    /\ Len(entries) = 2 /\ Len(posts) = 2
    /\ PostOfEntry(1).canonical = ExampleUrl
    /\ PostOfEntry(2).canonical =
           <<"http://localhost:8080", "/blog/", "h","e","l","l","o","-","w","o","r","l","d">>

----------------------------------------------------------------------------
(* The transducer's own markup *)

StyledKinds ==
    {"StrikethroughStart", "StrikethroughEnd", "BlockQuoteStart", "BlockQuoteEnd",
     "TaskListMarker", "FootnoteReference"}

\* the markup of the transition table for these events
StyledMarkup(e) ==
    CASE e.kind = "StrikethroughStart" -> <<"<del class=\"line-through text-gray-500\">">>
      [] e.kind = "StrikethroughEnd" -> <<"</del>">>
      [] e.kind = "BlockQuoteStart" ->
            <<"<blockquote class=\"border-l-4 border-primary-500 pl-4 my-4 italic text-gray-600 dark:text-gray-400\">">>
      [] e.kind = "BlockQuoteEnd" -> <<"</blockquote>">>
      [] e.kind = "TaskListMarker" ->
            IF e.checked
            THEN <<"<input type=\"checkbox\" checked disabled class=\"mr-2 h-4 w-4 rounded border-gray-300 text-indigo-600 bg-indigo-600 accent-indigo-600\"> ">>
            ELSE <<"<input type=\"checkbox\" disabled class=\"mr-2 h-4 w-4 rounded border-gray-300 bg-gray-100 dark:bg-gray-700\"> ">>
      [] e.kind = "FootnoteReference" ->
            <<"<sup><a href=\"#fn-">> \o e.name \o <<"\" class=\"footnote-ref\">[">>
            \o e.name \o <<"]</a></sup>">>

\* the flags and accumulators that make up the state of the transducer
StateKept ==
    /\ in_code_block' = in_code_block
    /\ code_lang' = code_lang
    /\ code_content' = code_content
    /\ in_table_head' = in_table_head
    /\ heading_level' = heading_level
    /\ heading_text' = heading_text

StyledEventNext == md_pc = "run" /\ i < Len(events) /\ events[i + 1].kind \in StyledKinds

\* the step writes these events with the markup of the table wherever the
\* markup of the step goes: the output, or the inner HTML of the open heading
C17_OriginalStep ==
    StyledEventNext =>
        /\ StateKept
        /\ IF heading_level = NoneOpt
           THEN html_output' = html_output \o StyledMarkup(events[i + 1])
           ELSE heading_inner' = heading_inner \o StyledMarkup(events[i + 1])

\* C17 as stated: in every state of the transducer, a heading being buffered
\* included, these events are written with the transducer's own markup.
C17_Original == [][C17_OriginalStep]_vars

C17_Step ==
    StyledEventNext =>
        /\ StateKept
        /\ IF heading_level = NoneOpt
           THEN /\ html_output' = html_output \o StyledMarkup(events[i + 1])
                /\ heading_inner' = heading_inner
           ELSE /\ heading_inner' = heading_inner \o push_html(events[i + 1])
                /\ html_output' = html_output

\* C17 (amended): while no heading is being buffered, a strikethrough-start or
\* -end, blockquote-start or -end, task-list-marker or footnote-reference event
\* appends the transducer's own markup of the transition table to the output
\* and leaves the state unchanged; inside a heading such an event is rendered
\* by the default single-event rendering into the heading's inner HTML, the
\* state otherwise unchanged.
C17_OwnMarkupOutsideHeadings == [][C17_Step]_vars

\* a styled <del> is in the output and the open heading holds a plain <del>
C17_Witness ==
    /\ md_pc = "run"
    /\ i >= 1
    /\ events[i].kind = "StrikethroughStart"
    /\ heading_level # NoneOpt
    /\ heading_inner = <<"<del>">>
    /\ \E k \in 1..Len(html_output) :
           html_output[k] = "<del class=\"line-through text-gray-500\">"

----------------------------------------------------------------------------
(* Table cells *)

\* the event at position k lies between a table-head-start and its end
InTableHead(k) ==
    \E s \in 1..(k - 1) :
        /\ events[s].kind = "TableHeadStart"
        /\ \A t \in (s + 1)..(k - 1) : events[t].kind # "TableHeadEnd"

CellTags == {"<th>", "</th>", "<td>", "</td>"}

IsCellTag(t) == t \in CellTags

ClosingOf(t) == IF t = "<th>" THEN "</th>" ELSE "</td>"

\* every cell tag of the output is an opening tag followed by its own closing tag
CellTagsPaired ==
    LET tags == SelectSeq(html_output, IsCellTag)
    IN \A k \in 1..Len(tags) :
           IF k % 2 = 1
           THEN tags[k] \in {"<th>", "<td>"}
           ELSE tags[k] = ClosingOf(tags[k - 1])

C18_Step ==
    (md_pc = "run" /\ i < Len(events)) =>
        LET e == events[i + 1]
        IN /\ e.kind = "TableCellStart" =>
                html_output' = html_output
                    \o (IF InTableHead(i + 1) THEN <<"<th>">> ELSE <<"<td>">>)
           /\ e.kind = "TableCellEnd" =>
                html_output' = html_output
                    \o (IF InTableHead(i + 1) THEN <<"</th>">> ELSE <<"</td>">>)
           /\ (in_table_head' /\ ~in_table_head) => e.kind = "TableHeadStart"
           /\ (in_table_head /\ ~in_table_head') => e.kind = "TableHeadEnd"
           /\ e.kind = "TableHeadStart" => in_table_head'
           /\ e.kind = "TableHeadEnd" => ~in_table_head'

\* C18: a table cell is written as <th>...</th> exactly when it lies between a
\* table-head-start and the matching table-head-end and as <td>...</td>
\* otherwise; the table-head flag is set only by table-head-start and cleared
\* only by table-head-end; the two tags of one cell are of the same kind.
C18_TableCells == [][C18_Step]_vars /\ [](md_pc = "run" => CellTagsPaired)

\* a table of two head cells and two body rows has been written
C18_Witness ==
    /\ md_pc = "run"
    /\ i >= 1
    /\ events[i].kind = "TableEnd"
    /\ ~in_table_head
    /\ LET tags == SelectSeq(html_output, IsCellTag)
       IN /\ Len(tags) >= 12
          /\ SubSeq(tags, Len(tags) - 11, Len(tags)) =
                <<"<th>", "</th>", "<th>", "</th>", "<td>", "</td>", "<td>", "</td>",
                  "<td>", "</td>", "<td>", "</td>">>

----------------------------------------------------------------------------
(* Order of the Posts in time *)

\* the instant, in UTC, the date of an accepted file resolves to
ResolvedInstant(file) ==
    LET dv == AuthorValue(file.doc, "date")
    IN  IF ValidYmd(dv)
        THEN Instant(Num(SubSeq(dv, 1, 4)), Num(SubSeq(dv, 6, 7)), Num(SubSeq(dv, 9, 10)), 0)
        ELSE Substituted(file)

\* hours on a scale that orders the instants
HourCount(t) == ((t.y * 13 + t.mo) * 32 + t.d) * 24 + t.h

Earlier(a, b) == HourCount(a) < HourCount(b)

\* the entry a Post was built of
EntryOf(p) == entries[CHOOSE k \in 1..Len(entries) : entries[k].name = p.filename]

\* C19: for any two Posts of one build the string order of their date_iso
\* values is the chronological order of the instants the dates resolve to, in
\* every zone and across its changes of UTC offset, and the list returned is
\* newest first.
C19_StringOrderIsChronological ==
    /\ \A p, q \in 1..Len(posts) :
           str_less(posts[p].date_iso, posts[q].date_iso)
               <=> Earlier(ResolvedInstant(EntryOf(posts[p])),
                           ResolvedInstant(EntryOf(posts[q])))
    /\ gp_pc = "done" =>
           \A p, q \in 1..Len(posts) :
               p < q => ~Earlier(ResolvedInstant(EntryOf(posts[p])),
                                 ResolvedInstant(EntryOf(posts[q])))

----------------------------------------------------------------------------
(* Calls that share nothing *)

\* state Normal with empty accumulators and a cleared table-head flag
StartsNormal ==
    /\ html_output = <<>>
    /\ ~in_code_block /\ code_lang = <<>> /\ code_content = <<>>
    /\ ~in_table_head
    /\ heading_level = NoneOpt /\ heading_text = <<>> /\ heading_inner = <<>>

\* two renderings of the same events with the same highlighter outcomes
SameBody(a, b) == a.events = b.events /\ a.results = b.results

\* C20: every call of markdown_to_html starts in state Normal with empty
\* heading and code accumulators and a cleared table-head flag; the HTML of a
\* body is the same whatever was rendered before it; the Post and the HTML of a
\* document do not depend on the other documents of the collection or their
\* order.
C20_NoStateAcrossCalls ==
    /\ (md_pc = "run" /\ i = 0) => StartsNormal
    /\ \A a, b \in 1..Len(rendered) :
           SameBody(rendered[a], rendered[b]) => rendered[a].html = rendered[b].html
    /\ md_pc = "done" =>
           \A a \in 1..Len(rendered) :
               (rendered[a].events = events /\ rendered[a].results = hl_results)
                   => rendered[a].html = html_output
    /\ md_pc = "idle" =>
           \A p \in 1..Len(posts) : posts[p] = PostAlone(EntryOf(posts[p]))
    /\ gp_pc = "loop" =>
           /\ Len(rendered) = Len(posts)
           /\ \A p \in 1..Len(posts) : rendered[p].filename = posts[p].filename

\* the heading body rendered first and again after a code block, to the same HTML
C20_Witness ==
    /\ gp_pc = "done"
    /\ Len(rendered) = 3
    /\ rendered[1].events = rendered[3].events
    /\ rendered[2].results = <<FALSE>>
    /\ rendered[1].html = rendered[3].html
    /\ rendered[1].html = <<"<h", "2", " id=\"">>
                           \o <<"h","e","l","l","o","-","w","o","r","l","d">>
                           \o <<"\">">> \o HelloWorld \o <<"</h", "2", ">">>
    /\ posts[1].title # posts[3].title

----------------------------------------------------------------------------
(* States of the transducer *)

InHeading == heading_level # NoneOpt

InCodeBlock == in_code_block

HasEvent(kind) == \E k \in 1..Len(events) : events[k].kind = kind

\* C21: the transducer is never inside a heading and inside a code block at
\* once, and after the last event it is in Normal (no heading open, no code
\* block open) with the table-head flag cleared.
C21_StatesExclusive ==
    /\ md_pc \in {"run", "done"} => ~(InHeading /\ InCodeBlock)
    /\ md_pc = "done" => (~InHeading /\ ~InCodeBlock /\ ~in_table_head)

\* a table and a heading have been rendered to the end
C21_Witness ==
    /\ md_pc = "done"
    /\ HasEvent("TableHeadEnd")
    /\ HasEvent("HeadingEnd")
    /\ ~InHeading /\ ~InCodeBlock /\ ~in_table_head

----------------------------------------------------------------------------
(* The day of a dated Post *)

\* the display form of the calendar day an author wrote as YYYY-MM-DD
DisplayOfDay(dv) ==
    <<MonthNames[Num(SubSeq(dv, 6, 7))], " ">> \o SubSeq(dv, 9, 10)
        \o <<",", " ">> \o SubSeq(dv, 1, 4)

\* C22: when the date the author wrote parses as a YYYY-MM-DD calendar date,
\* the display date of the Post and the calendar-date part of its date_iso
\* both denote that day, in every local time zone.
C22_DateIsTheAuthorsDay ==
    \A k \in AcceptedSoFar :
        LET dv == AuthorValue(entries[k].doc, "date")
        IN  ValidYmd(dv) =>
                /\ PostOfEntry(k).date = DisplayOfDay(dv)
                /\ SubSeq(PostOfEntry(k).date_iso, 1, 10) = dv

----------------------------------------------------------------------------
(* Table markup *)

Open(name) == [open |-> TRUE, name |-> name]

Close(name) == [open |-> FALSE, name |-> name]

\* the table tags a piece of the output holds, in order
TableTagsOf(piece) ==
    CASE piece = "<div class=\"table-container\"><table>" -> <<Open("div"), Open("table")>>
      [] piece = "</table></div>" -> <<Close("table"), Close("div")>>
      [] piece = "<thead><tr>" -> <<Open("thead"), Open("tr")>>
      [] piece = "</tr></thead><tbody>" -> <<Close("tr"), Close("thead"), Open("tbody")>>
      [] piece = "</tbody>" -> <<Close("tbody")>>
      [] piece = "<tr>" -> <<Open("tr")>>
      [] piece = "</tr>" -> <<Close("tr")>>
      [] piece = "<th>" -> <<Open("th")>>
      [] piece = "</th>" -> <<Close("th")>>
      [] piece = "<td>" -> <<Open("td")>>
      [] piece = "</td>" -> <<Close("td")>>
      [] OTHER -> <<>>

TableTags(out) == Concat([k \in 1..Len(out) |-> TableTagsOf(out[k])])

\* the tags close what was opened last, and nothing stays open
RECURSIVE Nested(_, _)
Nested(tags, stack) ==
    IF tags = <<>> THEN stack = <<>>
    ELSE IF Head(tags).open THEN Nested(Tail(tags), <<Head(tags).name>> \o stack)
    ELSE /\ stack # <<>>
         /\ Head(stack) = Head(tags).name
         /\ Nested(Tail(tags), Tail(stack))

\* C23: when table-end has been handled, every element the transducer opened
\* for the table (div, table, thead, tbody, tr, th, td) has been closed by a
\* matching closing tag, in properly nested order.
C23_TableMarkupBalanced ==
    (md_pc = "run" /\ i >= 1 /\ events[i].kind = "TableEnd")
        => Nested(TableTags(html_output), <<>>)

----------------------------------------------------------------------------
(* The slug derivations compared *)

\* C24: the heading-anchor slugify, the title slug of get_posts and the
\* file-name slug of admin_save_post return the same string for the same text.
C24_SlugDerivationsAgree ==
    sl_pc = "once" =>
        /\ sl_out = slugify(sl_text)
        /\ sl_out = title_slug(sl_text)
        /\ sl_out = save_slug(sl_text)

\* the file-name slug of a title with a run of separators: "A!\tb"
C24_Witness ==
    /\ sl_pc = "once"
    /\ sl_fn = "save"
    /\ sl_text = <<"A", "!", "\t", "b">>
    /\ sl_out = <<"a", "-", "b">>


----------------------------------------------------------------------------
(* The content directory is written by the admin only *)

\* the request handled by the step wrote or removed a document
Touched == ad_n' # ad_n /\ (ad_last'.wrote \cup ad_last'.removed # {} \/ files' # files)

\* C25: no document of the content directory is created, overwritten or
\* deleted by a request without a valid admin session: every write and every
\* removal happens in a handler that first got true from is_authenticated
C25_WritesNeedSession == [][Touched => ad_last'.authed]_vars


----------------------------------------------------------------------------
(* The admin's saves and deletions *)

\* the step handles an authenticated request to the handler
Handled(handler) == ad_n' # ad_n /\ ad_last'.handler = handler /\ ad_last'.authed

\* the step saves a post from the new-post form: no slug, or the empty one
SavesNewPost == Handled("save") /\ ad_last'.slug \in {NoneOpt, Some(<<>>)}

\* C28: a new post saved through the editor is stored under the slug of its
\* title and is part of the collection: an authenticated admin_save_post
\* without slug or with the empty slug writes content/{slug of the title}.md,
\* and the next get_posts returns a Post with the submitted title
C28_NewPostIsStored ==
    [][SavesNewPost =>
            LET name == title_slug(ad_last'.title) \o MdExt
            IN  /\ ad_last'.wrote = {name}
                /\ name \in DOMAIN files'
                /\ \E p \in PostsOf(files') : p.title = ad_last'.title]_vars

\* the Posts the dashboard lists before the request of the step
Shown == PostsOf(files)

\* the step deletes through the slug the dashboard passes for a Post it shows
DeletesShown ==
    /\ Handled("delete")
    /\ \E p \in Shown : p.slug = ad_last'.slug[1]

\* C29: the dashboard's delete removes the post it is shown for and no other:
\* an authenticated admin_delete_post(p.slug) removes the file p was built
\* from, and never the file of a Post with another slug
C29_DeleteRemovesThePost ==
    [][DeletesShown =>
            \A p \in Shown :
                IF p.slug = ad_last'.slug[1]
                THEN p.filename \notin DOMAIN files'
                ELSE p.filename \in DOMAIN files']_vars

\* C30: after admin_delete_post succeeds github_links has no entry for the
\* deleted document: no link is left that names a file the request removed
C30_NoLinkToDeletedFile ==
    [][Handled("delete") /\ ad_last'.removed # {} =>
            \A key \in DOMAIN github_links' : key \o MdExt \notin ad_last'.removed]_vars


----------------------------------------------------------------------------
(* Lock-out and sessions *)

\* MAX_LOGIN_ATTEMPTS failed logins are recorded for the ip and
\* LOCKOUT_DURATION_SECS have not passed since the last of them
LockedOut(ip) ==
    /\ ip \in DOMAIN login_attempts
    /\ login_attempts[ip].attempts >= MAX_LOGIN_ATTEMPTS
    /\ login_attempts[ip].locked_until # NoneOpt
    /\ ad_clock < login_attempts[ip].locked_until[1]

\* the step compares the password of the login request task c handles
ComparesPassword(c) == lg_pc[c] = "verify" /\ lg_pc'[c] # "verify"

\* the step gives the login request of task c its session
ObtainsSession(c) == lg_pc[c] = "session" /\ lg_pc'[c] # "session"

\* C26: the lock-out holds under concurrency: once MAX_LOGIN_ATTEMPTS failed
\* logins are recorded for an ip and until LOCKOUT_DURATION_SECS have passed,
\* no login request from that ip has its password compared or obtains a
\* session, whatever the interleaving of the requests
C26_LockoutUnderConcurrency ==
    [][\A c \in Clients :
          ComparesPassword(c) \/ ObtainsSession(c) => ~LockedOut(lg_req[c].ip)]_vars

\* the token is one a login has issued, no logout has carried it, and it is
\* younger than SESSION_DURATION_SECS
InForce(token) ==
    /\ token \in DOMAIN issued
    /\ token \notin revoked
    /\ ad_clock - issued[token] < SESSION_DURATION_SECS

\* the step is a request that is_authenticated answers
Answers == auth_result'.turn # auth_result.turn

\* C27: a session token authenticates a request only between the login that
\* issued it and the earlier of a logout carrying it and SESSION_DURATION_SECS
\* after its creation: is_authenticated is never true for a cookie without a
\* token that was issued, has not been logged out and has not expired
C27_TokenInForce ==
    [][Answers /\ auth_result'.result => \E token \in auth_result'.cookie : InForce(token)]_vars

\* a token that was issued and not logged out is refused once it has expired,
\* and the other token, issued later, has authenticated its request
C27_Witness ==
    /\ auth_result.cookie = {"t1"}
    /\ ~auth_result.result
    /\ "t1" \in DOMAIN issued /\ "t1" \notin revoked
    /\ ad_clock - issued["t1"] >= SESSION_DURATION_SECS
    /\ "t2" \in DOMAIN sessions

====
